---- MODULE Spec2Model ----
(***************************************************************************)
(* smart-agent: the agent execution loop of src/src/agent.ts               *)
(* (Agent.run / Agent.executeLoop / Agent.checkObjectives /                *)
(* Agent.parseToolCallsFromText) as a state machine.                       *)
(*                                                                         *)
(* One action per stretch of code between two suspension points of the    *)
(* async generator (a yield or an await).  The language model, the tools,  *)
(* the validators and the holder of the AbortSignal are the environment:   *)
(* their answers are drawn with \E from small sets.                        *)
(*                                                                         *)
(* Exceptions are Error objects (they carry a message).  measure() of      *)
(* measure-fn returns null when the measured function throws; the          *)
(* repository relies on that at every call site (agent.ts:229,             *)
(* unnamed/part_006:1159-1181).                                            *)
(***************************************************************************)
EXTENDS Integers, Sequences, FiniteSets, TLC

(***************************************************************************)
(* Bounds of the model.                                                    *)
(***************************************************************************)
\* largest config.maxIterations a run is started with
MaxIterations == 2
\* most fragments one streamLLM() attempt produces
MaxChunks == 1

(***************************************************************************)
(* Values.                                                                 *)
(***************************************************************************)
\* JavaScript null / undefined
Null == [null |-> TRUE]

\* this.tools: names of the registry (built-ins of tools.ts the model uses)
ToolNames == {"exec", "write_file"}

\* ToolInvocation {tool, params}; params is reduced to its path and code
\* entries, "" when the invocation has no such parameter
Inv(t, p) == [tool |-> t, path |-> p, code |-> ""]
InvocationOf(t) == Inv(t, IF t = "write_file" THEN "a.txt" ELSE "")

\* ToolResult values a tool returns
ToolSuccess == [success |-> TRUE, output |-> "out", error |-> ""]
ToolFailure == [success |-> FALSE, output |-> "", error |-> "failed"]
\* the synthesized result of agent.ts:286
UnknownToolResult == [success |-> FALSE, output |-> "", error |-> "Unknown tool"]

(***************************************************************************)
(* Model text.  A text is a sequence of tokens; the empty sequence is the  *)
(* empty string.  Tokens: a narrative word, an inline record               *)
(* {"tool":..,"params":{..}}, and a ```json fence holding a payload.       *)
(***************************************************************************)
Word == [k |-> "word"]
Inline(t, p) == [k |-> "inline", tool |-> t, path |-> p]
\* a record of a fenced payload: tool "" when the key is missing or empty,
\* hasParams FALSE when params is missing, isNull for a null list element,
\* inlineForm when the record's text has the shape the inline regex matches
\* and its params group parses, ticks when a string of the record holds ```
Rec(t, p) == [tool |-> t, path |-> p, code |-> "", hasParams |-> TRUE, isNull |-> FALSE,
              inlineForm |-> TRUE, ticks |-> FALSE]
\* the invocation a record of a payload gives
InvOf(item) == [tool |-> item.tool, path |-> item.path, code |-> item.code]
\* a ```json fence: the elements of its payload, whether the payload is
\* well-formed JSON, and whether it is a bare object instead of a list
Fence(items, valid) == [k |-> "fence", items |-> items, valid |-> valid, bare |-> FALSE]
BareFence(item) == [k |-> "fence", items |-> <<item>>, valid |-> TRUE, bare |-> TRUE]

RECURSIVE FenceRecords(_, _)
\* agent.ts:363-371, the loop over the parsed payload: <<invocations, threw>>
FenceRecords(items, acc) ==
    IF items = <<>> THEN <<acc, FALSE>>
    ELSE LET item == Head(items) IN
         IF item.isNull THEN <<acc, TRUE>>
         ELSE IF item.tool # "" /\ item.hasParams
              THEN FenceRecords(Tail(items), Append(acc, InvOf(item)))
              ELSE FenceRecords(Tail(items), acc)

RECURSIVE InlineMatches(_)
\* agent.ts:377-384, every match of the inline regex, left to right; the
\* regex scans the whole text, the inside of fences included
InlineMatches(text) ==
    IF text = <<>> THEN <<>>
    ELSE LET tok == Head(text) IN
         (IF tok.k = "inline" THEN <<Inv(tok.tool, tok.path)>>
          ELSE IF tok.k = "fence"
               THEN LET RECURSIVE inside(_)
                        inside(items) ==
                            IF items = <<>> THEN <<>>
                            ELSE (IF ~Head(items).isNull /\ Head(items).inlineForm
                                  THEN <<InvOf(Head(items))>>
                                  ELSE <<>>) \o inside(Tail(items))
                    IN inside(tok.items)
               ELSE <<>>)
         \o InlineMatches(Tail(text))

\* the first ```json fence of the text (text.match without the g flag)
FirstFence(text) ==
    LET idx == {n \in 1..Len(text) : text[n].k = "fence"}
    IN IF idx = {} THEN Null ELSE text[CHOOSE n \in idx : \A m \in idx : n <= m]

\* agent.ts:358 and 361: the group the fence regex captures parses as JSON.
\* The lazy [\s\S]*? ends at the first ``` after the opening, so a payload
\* with ``` inside one of its strings is cut there
PayloadParses(f) ==
    /\ f.valid
    /\ \A n \in 1..Len(f.items) : ~f.items[n].ticks

\* agent.ts:360-372: the try block raises, by JSON.parse or by the read of
\* item.tool on a null element
TryRaises(f) ==
    \/ ~PayloadParses(f)
    \/ FenceRecords(f.items, <<>>)[2]

\* the try block without its catch clause
FenceCatch_Rethrow(raised) == raised

\* agent.ts:373, catch { }: whether the error leaves the try statement
FenceCatch(raised) == FALSE

\* an Error leaves parseToolCallsFromText(text)
ExtractorRaises(text) ==
    /\ FirstFence(text) # Null
    /\ FenceCatch(TryRaises(FirstFence(text)))

\* Agent.parseToolCallsFromText, the value it returns
parseToolCallsFromText(text) ==
    LET f == FirstFence(text)
        parsed == f # Null /\ PayloadParses(f)
        p1 == IF parsed THEN FenceRecords(f.items, <<>>) ELSE <<<<>>, FALSE>>
    IN IF parsed /\ ~p1[2] /\ Len(p1[1]) > 0
       THEN p1[1]
       ELSE p1[1] \o InlineMatches(text)

\* what is left of a fence whose payload holds ```: the replace regex is
\* lazy as well and removes the text up to the first ``` only
Cut(f) == IF \E n \in 1..Len(f.items) : f.items[n].ticks THEN <<Word>> ELSE <<>>

RECURSIVE StripFences(_)
\* accumulated.replace(/```json[\s\S]*?```/g, "").trim()
StripFences(text) ==
    IF text = <<>> THEN <<>>
    ELSE (IF Head(text).k = "fence" THEN Cut(Head(text)) ELSE <<Head(text)>>)
         \o StripFences(Tail(text))

(***************************************************************************)
(* Inputs the environment draws from.                                      *)
(***************************************************************************)
\* fragments streamLLM() may produce; <<>> is an empty fragment, the last
\* one a fence whose payload is not JSON
StreamChunks ==
    { <<>>,
      <<Word>>,
      <<Fence(<<Rec("bogus", ""), Rec("write_file", "a.txt")>>, TRUE)>>,
      <<Fence(<<>>, FALSE)>> }

\* lists of structured tool calls (names) a provider may return; bogus is
\* a name the registry does not hold
StructuredCalls == { <<>>, <<"exec", "write_file">>, <<"bogus", "exec">> }

\* LLMResponse values jsxCallLLM may return: {text, toolCalls}; hasToolCalls
\* is FALSE for a response object that carries no toolCalls array
AtomicResponses ==
    { [text |-> t, toolCalls |-> c, hasToolCalls |-> TRUE] :
        t \in {<<>>, <<Word>>},
        c \in StructuredCalls }
    \cup { [text |-> <<Word>>, toolCalls |-> <<>>, hasToolCalls |-> FALSE] }

\* the same for an Agent a Session runs: one fragment with one tool call,
\* one atomic response, so that the turns of a Session stay enumerable
SessionChunks == { <<Fence(<<Rec("write_file", "a.txt")>>, TRUE)>> }
SessionResponses == { [text |-> <<Word>>, toolCalls |-> <<"exec">>, hasToolCalls |-> TRUE] }

\* createArcTools(puzzle), arc.ts:146-312: the tools of a puzzle turn
ArcToolNames ==
    {"view_training", "view_all_training", "view_test_input", "run_transform",
     "verify_on_training", "submit_answer"}

\* the same for the Agent of a puzzle turn: a fragment calls run_transform,
\* with one of two codes or with no code parameter, or submit_answer; the
\* atomic response calls submit_answer
ArcChunks ==
    { <<Fence(<<[Rec("run_transform", "") EXCEPT !.code = c]>>, TRUE)>> :
         c \in {"c1", "c2", ""} }
        \cup { <<Fence(<<Rec("submit_answer", "")>>, TRUE)>> }
ArcResponses == { [text |-> <<Word>>, toolCalls |-> <<"submit_answer">>, hasToolCalls |-> TRUE] }

\* what one validator does when called: returns met, returns not met, throws
ValidatorOutcomes == {"met", "not_met", "throws"}

\* objective sets an Agent is constructed with (names, declaration order)
ObjectiveSets == { <<>>, <<"o1", "o2">> }

(***************************************************************************)
(* State.                                                                  *)
(***************************************************************************)
VARIABLES
    objectives,       \* this.objectives (names, declaration order)
    validate,         \* the validate function of each objective
    maxIterations,    \* this.config.maxIterations
    aborted,          \* signal.aborted
    pc,               \* position of the generator
    i,                \* loop variable of executeLoop
    messages,         \* state.messages (role and kind of each message)
    iteration,        \* state.iteration
    toolHistory,      \* state.toolHistory
    touchedFiles,     \* state.touchedFiles
    accumulated,      \* local of the iteration
    streamed,         \* local of the iteration
    llmResult,        \* local of the iteration
    invocations,      \* local of the iteration
    k,                \* index of the invocation the tool loop is at (1-based)
    toolMessages,     \* local of the tool loop
    objectiveResults, \* local of the iteration
    caught,           \* message of the Error the iteration's try block raised
    inFlight,         \* asynchronous calls started and not yet settled
    emitted,          \* events yielded since the loop variable last changed
    counts,           \* iteration_start and terminal events yielded so far, per type
    calls,            \* what the iteration did so far (see NoCalls)
    arg,              \* argument of the function under study (hydrateObjective,
                      \* parseToolCallsFromText)
    ret,              \* what its call did: returned a value or threw
    sconfig,          \* Session: this.config and this.requireConfirmation
    turnCount,        \* Session: this.turnCount
    history,          \* Session: this.history
    completedObjectives, \* Session: this.completedObjectives
    pendingObjectives,   \* Session: this.pendingObjectives
    abortController,  \* Session: turn whose AbortController the field holds, 0 for null
    confirmationResolve, \* Session: turn whose promise the field resolves, 0 for null
    gates,            \* state of the confirmation promise of each turn
    spc,              \* position of the generator of send()
    msgType,          \* local of send()
    newObjectives,    \* local of handleTask
    sevents,          \* events send() yielded in the turn, except the Agent's
    api               \* what the consumer called in the turn (see NoApi)

agent == <<objectives, validate, maxIterations, aborted, pc, i, messages, iteration,
           toolHistory, touchedFiles, accumulated, streamed, llmResult,
           invocations, k, toolMessages, objectiveResults, caught, inFlight,
           emitted, counts, calls>>

\* the Session
session == <<sconfig, turnCount, history, completedObjectives, pendingObjectives,
             abortController, confirmationResolve, gates, spc, msgType,
             newObjectives, sevents, api>>

\* the state outside the Agent
outside == <<arg, ret, session>>

vars == <<agent, outside>>

config == <<objectives, validate, maxIterations>>
runState == <<messages, iteration, toolHistory, touchedFiles>>
locals == <<accumulated, streamed, llmResult, invocations, k, toolMessages,
            objectiveResults, caught>>

Msg(role, kind) == [role |-> role, kind |-> kind]

\* stream/atomic: model requests issued; extractor: runs of
\* parseToolCallsFromText; executed: indices of the invocations whose
\* tool.execute was called, in call order; validated: what each validator
\* called by checkObjectives did, in call order; mark: Len(state.messages)
\* when the iteration started; feedback: the lines of the feedback message
\* the iteration appended (agent.ts:325-333), Null when it appended none
NoCalls == [stream |-> 0, atomic |-> 0, extractor |-> 0,
            validated |-> <<>>, executed |-> <<>>, mark |-> 0, feedback |-> Null]
NoCounts == [iteration_start |-> 0, complete |-> 0, max_iterations |-> 0,
             cancelled |-> 0]

Terminal == {"complete", "max_iterations", "cancelled"}

\* yield ev
Emit(ev) ==
    /\ emitted' = Append(emitted, ev)
    /\ counts' = [c \in DOMAIN counts |-> IF c = ev.type THEN counts[c] + 1 ELSE counts[c]]

\* no function call under study
NoCall ==
    /\ arg = Null
    /\ ret = Null

\* what the consumer called in the turn.  inHandler: what was called while the generator was suspended at the awaiting_confirmation event;
\* decided: the call that resolved the pending gate; threw: a call threw;
\* abortCalled: abort() was called
NoApi == [inHandler |-> "none", decided |-> "none", threw |-> FALSE, abortCalled |-> FALSE]

\* no Session exists
NoSession ==
    /\ sconfig = Null
    /\ turnCount = 0
    /\ history = <<>>
    /\ completedObjectives = <<>>
    /\ pendingObjectives = <<>>
    /\ abortController = 0
    /\ confirmationResolve = 0
    /\ gates = <<>>
    /\ spc = "none"
    /\ msgType = ""
    /\ newObjectives = <<>>
    /\ sevents = <<>>
    /\ api = NoApi

Init ==
    /\ NoCall
    /\ NoSession
    /\ objectives \in ObjectiveSets
    /\ validate = [n \in 1..Len(objectives) |-> "custom"]
    /\ maxIterations \in 0..MaxIterations
    /\ aborted = FALSE
    /\ pc = "idle"
    /\ i = 0
    /\ messages = <<>>
    /\ iteration = 0
    /\ toolHistory = <<>>
    /\ touchedFiles = {}
    /\ accumulated = <<>>
    /\ streamed = FALSE
    /\ llmResult = Null
    /\ invocations = <<>>
    /\ k = 1
    /\ toolMessages = <<>>
    /\ objectiveResults = <<>>
    /\ caught = ""
    /\ inFlight = {}
    /\ emitted = <<>>
    /\ counts = NoCounts
    /\ calls = NoCalls

(***************************************************************************)
(* The holder of the AbortSignal aborts it, at any moment of the run.      *)
(***************************************************************************)
Abort ==
    /\ ~aborted
    /\ pc \notin {"done", "threw"}
    /\ aborted' = TRUE
    /\ UNCHANGED <<outside, config, pc, i, runState, locals, inFlight, emitted, counts, calls>>

(***************************************************************************)
(* Agent.run: the first request for an event.                              *)
(***************************************************************************)
\* the missing objectives reported as an error event of a run that ends
RunThrows_AsErrorEvent ==
    /\ pc = "idle"
    /\ Len(objectives) = 0
    /\ Emit([type |-> "error", iteration |-> -1, error |-> "No objectives defined"])
    /\ pc' = "done"
    /\ UNCHANGED <<outside, config, aborted, i, runState, locals, inFlight, calls>>

\* agent.ts:86-88, the generator body starts at the first next()
RunThrows ==
    /\ pc = "idle"
    /\ Len(objectives) = 0
    /\ pc' = "threw"
    /\ UNCHANGED <<outside, config, aborted, i, runState, locals, inFlight, emitted, counts, calls>>

\* an executor that is given the last message only
RunInput_LastOnly ==
    IF spc = "none" THEN <<Msg("user", "input")>> ELSE <<history[Len(history)]>>

\* the input of run(): a prompt, or the message array a Session passes
RunInput == IF spc = "none" THEN <<Msg("user", "input")>> ELSE history

Run ==
    /\ pc = "idle"
    /\ Len(objectives) # 0
    /\ messages' = <<Msg("system", "system_prompt")>> \o RunInput
    /\ pc' = "loop_head"
    /\ UNCHANGED <<outside, config, aborted, i, iteration, toolHistory, touchedFiles,
                   locals, inFlight, emitted, counts, calls>>

(***************************************************************************)
(* Agent.executeLoop.                                                      *)
(***************************************************************************)
Ev(type, n) == [type |-> type, iteration |-> n]

\* continue, or the end of the loop body: control goes to the loop's i++
NextIteration ==
    /\ pc' = "iteration_end"
    /\ i' = i

\* agent.ts:191, i++; the locals of the loop body go out of scope
LoopIncrement ==
    /\ pc = "iteration_end"
    /\ i' = i + 1
    /\ pc' = "loop_head"
    /\ accumulated' = <<>>
    /\ streamed' = FALSE
    /\ llmResult' = Null
    /\ invocations' = <<>>
    /\ k' = 1
    /\ toolMessages' = <<>>
    /\ objectiveResults' = <<>>
    /\ caught' = ""
    /\ calls' = NoCalls
    /\ emitted' = <<>>
    /\ UNCHANGED <<outside, config, aborted, runState, inFlight, counts>>

\* the loop condition with <= for <
LoopCondition_OneMore(n, max) == n <= max

\* the loop condition stopping one iteration early
LoopCondition_OneLess(n, max) == n + 1 < max

\* agent.ts:191, the loop condition
LoopCondition(n, max) == n < max

\* the signal is never looked at
AbortObserved_Never(sig) == FALSE

\* agent.ts:193, signal?.aborted
AbortObserved(sig) == sig

\* agent.ts:345
ExhaustIterations ==
    /\ pc = "loop_head"
    /\ ~LoopCondition(i, maxIterations)
    /\ Emit(Ev("max_iterations", maxIterations))
    /\ pc' = "done"
    /\ UNCHANGED <<outside, config, aborted, i, runState, locals, inFlight, calls>>

\* agent.ts:193-196
Cancelled ==
    /\ pc = "loop_head"
    /\ LoopCondition(i, maxIterations)
    /\ AbortObserved(aborted)
    /\ Emit(Ev("cancelled", i))
    /\ pc' = "done"
    /\ UNCHANGED <<outside, config, aborted, i, runState, locals, inFlight, calls>>

\* agent.ts:198-205
IterationStart ==
    /\ pc = "loop_head"
    /\ LoopCondition(i, maxIterations)
    /\ ~AbortObserved(aborted)
    /\ iteration' = i
    /\ Emit(Ev("iteration_start", i))
    /\ calls' = [NoCalls EXCEPT !.mark = Len(messages)]
    /\ pc' = "stream_call"
    /\ UNCHANGED <<outside, config, aborted, i, messages, toolHistory, touchedFiles, locals,
                   inFlight>>

Op(name, n) == [op |-> name, n |-> n]

\* agent.ts:214, streamLLM(...) is called and its first fragment awaited
StreamCall ==
    /\ pc = "stream_call"
    /\ inFlight' = inFlight \cup {Op("stream", 0)}
    /\ calls' = [calls EXCEPT !.stream = @ + 1]
    /\ pc' = "streaming"
    /\ UNCHANGED <<outside, config, aborted, i, runState, locals, emitted, counts>>

NumDeltas == Len(SelectSeq(emitted, LAMBDA e : e.type = "thinking_delta"))

\* agent.ts:218-220, one fragment arrives
StreamChunk ==
    /\ pc = "streaming"
    /\ NumDeltas < MaxChunks
    /\ \E chunk \in (IF spc = "none" THEN StreamChunks
                     ELSE IF msgType = "arc" THEN ArcChunks ELSE SessionChunks) :
        /\ accumulated' = accumulated \o chunk
        /\ Emit([type |-> "thinking_delta", iteration |-> i, delta |-> chunk])
    /\ streamed' = TRUE
    /\ UNCHANGED <<outside, config, aborted, pc, i, runState, llmResult, invocations, k,
                   toolMessages, objectiveResults, caught, inFlight, calls>>

\* agent.ts:217-221, the stream ends normally
StreamEnd ==
    /\ pc = "streaming"
    /\ inFlight' = inFlight \ {Op("stream", 0)}
    /\ pc' = "post_llm"
    /\ UNCHANGED <<outside, config, aborted, i, runState, locals, emitted, counts, calls>>

\* the fallback taken whatever was streamed
FallbackAllowed_Always(s) == TRUE

\* agent.ts:224, if (!streamed)
FallbackAllowed(s) == ~s

\* agent.ts:222-227, streamLLM throws; the atomic call is issued when no
\* fragment was produced
StreamFail ==
    /\ pc = "streaming"
    /\ IF FallbackAllowed(streamed)
       THEN /\ inFlight' = (inFlight \ {Op("stream", 0)}) \cup {Op("atomic", 0)}
            /\ calls' = [calls EXCEPT !.atomic = @ + 1]
            /\ pc' = "atomic_call"
       ELSE /\ inFlight' = inFlight \ {Op("stream", 0)}
            /\ calls' = calls
            /\ pc' = "post_llm"
    /\ UNCHANGED <<outside, config, aborted, i, runState, locals, emitted, counts>>

\* agent.ts:225-236, callWithJsxAi settles; measure() turns a throw into null
AtomicReturn ==
    /\ pc = "atomic_call"
    /\ inFlight' = inFlight \ {Op("atomic", 0)}
    /\ \E r \in (IF spc = "none" THEN AtomicResponses
                 ELSE IF msgType = "arc" THEN ArcResponses ELSE SessionResponses)
                    \cup {Null} :
        /\ llmResult' = r
        /\ IF r = Null
           THEN /\ Emit([type |-> "error", iteration |-> i, error |-> "LLM returned empty response"])
                /\ messages' = Append(messages, Msg("user", "Empty response. Try again."))
                /\ NextIteration
                /\ accumulated' = accumulated
           ELSE /\ accumulated' = r.text
                /\ pc' = "post_llm"
                /\ UNCHANGED <<i, messages, emitted, counts>>
    /\ UNCHANGED <<outside, config, aborted, iteration, toolHistory, touchedFiles, streamed,
                   invocations, k, toolMessages, objectiveResults, caught, calls>>

\* agent.ts:239, if (!accumulated && !llmResult)
IsEmptyResponse(acc, res) == acc = <<>> /\ res = Null

\* agent.ts:239-243
EmptyResponse ==
    /\ pc = "post_llm"
    /\ IsEmptyResponse(accumulated, llmResult)
    /\ Emit([type |-> "error", iteration |-> i, error |-> "LLM returned empty response"])
    /\ messages' = Append(messages, Msg("user", "Empty response. Try again."))
    /\ NextIteration
    /\ UNCHANGED <<outside, config, aborted, iteration, toolHistory, touchedFiles, locals,
                   inFlight, calls>>

\* agent.ts:250-254, the structured path
StructuredInvocations(res) ==
    [n \in 1..Len(res.toolCalls) |-> InvocationOf(res.toolCalls[n])]

\* agent.ts:259-262, the narrative kept for display
Narrative(text) ==
    IF StripFences(text) # <<>> THEN StripFences(text) ELSE text

\* agent.ts:271-274
AssistantContent(text, invs) ==
    IF text # <<>> THEN "narrative"
    ELSE IF Len(invs) > 0 THEN "invocation summary" ELSE "(empty)"

\* agent.ts:250, llmResult.toolCalls.map on a response without toolCalls;
\* agent.ts:257, an Error leaving the extractor
ExtractRaises ==
    /\ pc = "post_llm"
    /\ ~IsEmptyResponse(accumulated, llmResult)
    /\ \/ llmResult # Null /\ ~llmResult.hasToolCalls
       \/ llmResult = Null /\ ExtractorRaises(accumulated)
    /\ caught' = "TypeError"
    /\ pc' = "catch"
    /\ UNCHANGED <<outside, config, aborted, i, runState, accumulated, streamed, llmResult,
                   invocations, k, toolMessages, objectiveResults, inFlight,
                   emitted, counts, calls>>

\* agent.ts:246-275
Extract ==
    /\ pc = "post_llm"
    /\ ~IsEmptyResponse(accumulated, llmResult)
    /\ llmResult # Null => llmResult.hasToolCalls
    /\ llmResult = Null => ~ExtractorRaises(accumulated)
    /\ IF llmResult # Null
       THEN /\ invocations' = StructuredInvocations(llmResult)
            /\ accumulated' = accumulated
            /\ calls' = calls
       ELSE /\ invocations' = parseToolCallsFromText(accumulated)
            /\ accumulated' = Narrative(accumulated)
            /\ calls' = [calls EXCEPT !.extractor = @ + 1]
    /\ IF accumulated' # <<>>
       THEN Emit([type |-> "thinking", iteration |-> i, message |-> accumulated'])
       ELSE UNCHANGED <<emitted, counts>>
    /\ messages' = Append(messages, Msg("assistant", AssistantContent(accumulated', invocations')))
    /\ k' = 1
    /\ toolMessages' = <<>>
    /\ pc' = "tools"
    /\ UNCHANGED <<outside, config, aborted, i, iteration, toolHistory, touchedFiles, streamed,
                   llmResult, objectiveResults, caught, inFlight>>

\* agent.ts:282-283, this.tools.get(inv.tool); the registry holds the
\* built-in tools and config.tools (agent.ts:45-53), which a puzzle turn
\* sets to the puzzle's tools (part_006:1062)
IsRegistered(t) == t \in ToolNames \cup (IF msgType = "arc" THEN ArcToolNames ELSE {})

\* an unknown tool raised as an error of the iteration
UnknownTool_Throws ==
    /\ pc = "tools"
    /\ k <= Len(invocations)
    /\ ~IsRegistered(invocations[k].tool)
    /\ Emit([type |-> "tool_result", iteration |-> i, tool |-> invocations[k].tool,
             result |-> UnknownToolResult])
    /\ caught' = "Unknown tool"
    /\ pc' = "catch"
    /\ UNCHANGED <<outside, config, aborted, i, runState, accumulated, streamed, llmResult,
                   invocations, k, toolMessages, objectiveResults, inFlight, calls>>

\* agent.ts:283-288
UnknownTool ==
    /\ pc = "tools"
    /\ k <= Len(invocations)
    /\ ~IsRegistered(invocations[k].tool)
    /\ toolMessages' = Append(toolMessages, [tool |-> invocations[k].tool, text |-> "ERROR: Unknown tool"])
    /\ Emit([type |-> "tool_result", iteration |-> i, tool |-> invocations[k].tool,
             result |-> UnknownToolResult])
    /\ k' = k + 1
    /\ UNCHANGED <<outside, config, aborted, pc, i, runState, accumulated, streamed, llmResult,
                   invocations, objectiveResults, caught, inFlight, calls>>

\* tool.execute called and not awaited: the loop goes on to the next invocation
ToolStart_NotAwaited ==
    /\ pc = "tools"
    /\ k <= Len(invocations)
    /\ IsRegistered(invocations[k].tool)
    /\ Emit([type |-> "tool_start", iteration |-> i, tool |-> invocations[k].tool,
             params |-> invocations[k].path])
    /\ inFlight' = inFlight \cup {[op |-> "execute", n |-> k]}
    /\ calls' = [calls EXCEPT !.executed = Append(@, k)]
    /\ k' = k + 1
    /\ UNCHANGED <<outside, config, aborted, pc, i, runState, accumulated, streamed, llmResult,
                   invocations, toolMessages, objectiveResults, caught>>

\* agent.ts:290-292, tool_start is yielded and tool.execute(inv.params) called
ToolStart ==
    /\ pc = "tools"
    /\ k <= Len(invocations)
    /\ IsRegistered(invocations[k].tool)
    /\ Emit([type |-> "tool_start", iteration |-> i, tool |-> invocations[k].tool,
             params |-> invocations[k].path, code |-> invocations[k].code])
    /\ inFlight' = inFlight \cup {Op("execute", k)}
    /\ calls' = [calls EXCEPT !.executed = Append(@, k)]
    /\ pc' = "tool_exec"
    /\ UNCHANGED <<outside, config, aborted, i, runState, locals>>

\* agent.ts:292-303, tool.execute settles (measure() turns a throw into
\* null); result.success on null raises a TypeError
ToolReturn ==
    /\ pc = "tool_exec"
    /\ inFlight' = inFlight \ {Op("execute", k)}
    /\ \E result \in {ToolSuccess, ToolFailure, Null} :
        /\ toolHistory' = Append(toolHistory,
                [iteration |-> i, tool |-> invocations[k].tool,
                 params |-> invocations[k].path, code |-> invocations[k].code,
                 result |-> result])
        /\ touchedFiles' = IF invocations[k].path # ""
                           THEN touchedFiles \cup {invocations[k].path}
                           ELSE touchedFiles
        /\ Emit([type |-> "tool_result", iteration |-> i, tool |-> invocations[k].tool,
                 result |-> result])
        /\ IF result = Null
           THEN /\ caught' = "TypeError"
                /\ pc' = "catch"
                /\ UNCHANGED <<k, toolMessages>>
           ELSE /\ toolMessages' = Append(toolMessages,
                        [tool |-> invocations[k].tool,
                         text |-> IF result.success THEN "ok" ELSE "ERROR"])
                /\ k' = k + 1
                /\ pc' = "tools"
                /\ caught' = caught
    /\ UNCHANGED <<outside, config, aborted, i, messages, iteration, accumulated, streamed,
                   llmResult, invocations, objectiveResults, calls>>

\* agent.ts:304-310, the tool loop is over
ToolsDone ==
    /\ pc = "tools"
    /\ k > Len(invocations)
    /\ messages' = IF Len(invocations) > 0
                   THEN Append(messages, Msg("tool", "Tool results"))
                   ELSE messages
    /\ pc' = "check"
    /\ UNCHANGED <<outside, config, aborted, i, iteration, toolHistory, touchedFiles, locals,
                   inFlight, emitted, counts, calls>>

\* checkObjectives without the per-objective try: the results end at the
\* first validator that throws
checkObjectives_StopAtThrow(objs, outcomes) ==
    LET thrown == {n \in 1..Len(objs) : outcomes[n] = "throws"}
        upto == IF thrown = {} THEN Len(objs)
                ELSE (CHOOSE n \in thrown : \A m \in thrown : n <= m) - 1
    IN [n \in 1..upto |->
           [name |-> objs[n], met |-> outcomes[n] = "met", reason |-> "reason"]]

\* Agent.checkObjectives, agent.ts:503-516: outcomes[n] is what the
\* validator of objective n does when called
checkObjectives(objs, outcomes) ==
    [n \in 1..Len(objs) |->
        [name |-> objs[n],
         met |-> outcomes[n] = "met",
         reason |-> IF outcomes[n] = "throws" THEN "Validator error" ELSE "reason"]]

\* what a validate function can do when called: the validator of a respond
\* objective returns met from iteration 0 on (objectives.ts:103-109), any
\* other one depends on the files, the tool history or the caller's code
ValidateOutcomes(v) == IF v = "respond" THEN {"met"} ELSE ValidatorOutcomes

\* agent.ts:313-314
CheckObjectives ==
    /\ pc = "check"
    /\ \E outcomes \in [1..Len(objectives) -> ValidatorOutcomes] :
        /\ \A n \in 1..Len(objectives) : outcomes[n] \in ValidateOutcomes(validate[n])
        /\ objectiveResults' = checkObjectives(objectives, outcomes)
        /\ calls' = [calls EXCEPT !.validated = outcomes]
    /\ Emit([type |-> "objective_check", iteration |-> i, results |-> objectiveResults'])
    /\ pc' = "decide"
    /\ UNCHANGED <<outside, config, aborted, i, runState, accumulated, streamed, llmResult,
                   invocations, k, toolMessages, caught, inFlight>>

\* some() for every()
allMet_Some(results) == \E n \in 1..Len(results) : results[n].met

\* agent.ts:316, objectiveResults.every(o => o.met)
allMet(results) == \A n \in 1..Len(results) : results[n].met

\* agent.ts:318-321
Complete ==
    /\ pc = "decide"
    /\ allMet(objectiveResults)
    /\ Emit(Ev("complete", i))
    /\ pc' = "done"
    /\ UNCHANGED <<outside, config, aborted, i, runState, locals, inFlight, calls>>

\* a feedback that lists every objective, the met ones included
Feedback_All(results) ==
    [n \in 1..Len(results) |-> [name |-> results[n].name, reason |-> results[n].reason]]

\* agent.ts:325-328, the lines of the feedback message: name and reason of
\* each result that is not met, in the order of the results
Feedback(results) ==
    LET unmet == SelectSeq(results, LAMBDA o : ~o.met)
    IN  [n \in 1..Len(unmet) |-> [name |-> unmet[n].name, reason |-> unmet[n].reason]]

\* agent.ts:323-334
NotAllMet ==
    /\ pc = "decide"
    /\ ~allMet(objectiveResults)
    /\ IF Len(invocations) = 0
       THEN /\ messages' = Append(messages, Msg("user", "objectives NOT met"))
            /\ calls' = [calls EXCEPT !.feedback = [lines |-> Feedback(objectiveResults)]]
       ELSE UNCHANGED <<messages, calls>>
    /\ NextIteration
    /\ UNCHANGED <<outside, config, aborted, iteration, toolHistory, touchedFiles, locals,
                   inFlight, emitted, counts>>

\* the iteration without its try/catch: the Error leaves the generator
CatchError_Rethrow ==
    /\ pc = "catch"
    /\ pc' = "threw"
    /\ UNCHANGED <<outside, config, aborted, i, runState, locals, inFlight, emitted, counts, calls>>

\* agent.ts:336-342, the catch of the iteration's try
CatchError ==
    /\ pc = "catch"
    /\ Emit([type |-> "error", iteration |-> i, error |-> caught])
    /\ messages' = Append(messages, Msg("user", "Recover and continue."))
    /\ NextIteration
    /\ UNCHANGED <<outside, config, aborted, iteration, toolHistory, touchedFiles, locals,
                   inFlight, calls>>

\* the consumer requests the next event: the generator runs to its next
\* suspension point
Resume ==
    \/ RunThrows
    \/ Run
    \/ ExhaustIterations
    \/ Cancelled
    \/ IterationStart
    \/ StreamCall
    \/ StreamChunk
    \/ StreamEnd
    \/ StreamFail
    \/ AtomicReturn
    \/ EmptyResponse
    \/ ExtractRaises
    \/ Extract
    \/ UnknownTool
    \/ ToolStart
    \/ ToolReturn
    \/ ToolsDone
    \/ CheckObjectives
    \/ Complete
    \/ NotAllMet
    \/ CatchError
    \/ LoopIncrement

Next ==
    \/ Abort
    \/ Resume

Spec == Init /\ [][Next]_vars

(***************************************************************************)
(* hydrateObjective of src/src/objectives.ts, as a function of the planned *)
(* objective it is given.                                                  *)
(***************************************************************************)
\* the case labels of the switch, objectives.ts:11-112
ObjectiveTypes ==
    {"file_exists", "file_contains", "command_succeeds", "command_output_contains",
     "custom_check", "respond", "task_scheduled"}

\* type values a planner may write: the case labels, a label in another
\* case, a type no case has, the empty string, and no type at all
PlannedTypes == ObjectiveTypes \cup {"File_Exists", "http_ok", "", "undefined"}
PlannedNames == {"n1", "n2", ""}
PlannedDescriptions == {"d1", "d2", ""}

\* PlannedObjective values
PlannedObjectives ==
    [name : PlannedNames, description : PlannedDescriptions, type : PlannedTypes]

Returned(v) == [kind |-> "returned", value |-> v]
Threw(msg) == [kind |-> "threw", message |-> msg]

\* the default case taken as an objective that is never met
hydrateObjective_DefaultIgnored(planned) ==
    Returned([name |-> planned.name, description |-> planned.description,
              validate |-> IF planned.type \in ObjectiveTypes THEN planned.type
                           ELSE "never_met"])

\* objectives.ts:9-130; the validate closure is named by the case that
\* built it
hydrateObjective(planned) ==
    IF planned.type \in ObjectiveTypes
    THEN Returned([name |-> planned.name, description |-> planned.description,
                   validate |-> planned.type])
    ELSE Threw("Unknown objective type")

\* no Agent exists
NoAgent ==
    /\ objectives = <<>>
    /\ validate = <<>>
    /\ maxIterations = 0
    /\ aborted = FALSE
    /\ pc = "none"
    /\ i = 0
    /\ messages = <<>>
    /\ iteration = 0
    /\ toolHistory = <<>>
    /\ touchedFiles = {}
    /\ accumulated = <<>>
    /\ streamed = FALSE
    /\ llmResult = Null
    /\ invocations = <<>>
    /\ k = 1
    /\ toolMessages = <<>>
    /\ objectiveResults = <<>>
    /\ caught = ""
    /\ inFlight = {}
    /\ emitted = <<>>
    /\ counts = NoCounts
    /\ calls = NoCalls

NotCalled == [kind |-> "not_called"]

InitHydrate ==
    /\ NoAgent
    /\ NoSession
    /\ arg \in PlannedObjectives
    /\ ret = NotCalled

\* hydrateObjective(planned, cwd) is called
Hydrate ==
    /\ ret = NotCalled
    /\ ret' = hydrateObjective(arg)
    /\ UNCHANGED <<agent, arg, session>>

NextHydrate == Hydrate

SpecHydrate == InitHydrate /\ [][NextHydrate]_vars

(***************************************************************************)
(* Agent.parseToolCallsFromText as a function of the model text.           *)
(***************************************************************************)
\* most elements one fenced payload holds
MaxRecords == 2

\* elements of a fenced payload
GoodExec == Rec("exec", "")
GoodWrite == Rec("write_file", "a.txt")
\* nested params, or the keys in another order: the inline regex finds nothing
Nested == [Rec("exec", "") EXCEPT !.inlineForm = FALSE]
\* a string of the params holds ```, the params group of the inline regex parses
TicksFlat == [Rec("write_file", "a.md") EXCEPT !.ticks = TRUE]
\* a string of the params holds ``` and a closing brace
TicksBrace == [Rec("write_file", "a.md") EXCEPT !.ticks = TRUE, !.inlineForm = FALSE]
NullItem == [tool |-> "", path |-> "", code |-> "", hasParams |-> FALSE, isNull |-> TRUE,
             inlineForm |-> FALSE, ticks |-> FALSE]
NoParams == [Rec("exec", "") EXCEPT !.hasParams = FALSE, !.inlineForm = FALSE]
NoTool == [Rec("", "") EXCEPT !.inlineForm = FALSE]

PayloadItems ==
    {GoodExec, GoodWrite, Nested, TicksFlat, TicksBrace, NullItem, NoParams, NoTool}

\* payloads of at most MaxRecords elements
Payloads == UNION {[1..n -> PayloadItems] : n \in 0..MaxRecords}

Fences ==
    {Fence(items, valid) : items \in Payloads, valid \in BOOLEAN}
    \cup {BareFence(item) : item \in PayloadItems}

\* model texts: narrative or an inline record, then at most one fence, then
\* an inline record or a second fence
Texts ==
    {before \o fence \o after :
        before \in {<<>>, <<Word>>, <<Inline("exec", "")>>},
        fence \in {<<>>} \cup {<<f>> : f \in Fences},
        after \in {<<>>, <<Inline("write_file", "a.txt")>>, <<Fence(<<GoodExec>>, TRUE)>>}}

InitExtractor ==
    /\ NoAgent
    /\ NoSession
    /\ arg \in Texts
    /\ ret = NotCalled

\* this.parseToolCallsFromText(text) is called
ParseText ==
    /\ ret = NotCalled
    /\ ret' = IF ExtractorRaises(arg) THEN Threw("SyntaxError or TypeError")
              ELSE Returned(parseToolCallsFromText(arg))
    /\ UNCHANGED <<agent, arg, session>>

NextExtractor == ParseText

SpecExtractor == InitExtractor /\ [][NextExtractor]_vars

(***************************************************************************)
(* Session of session.ts (src/unnamed/part_006:838-1291): send() and its   *)
(* three paths, the confirmation gate, and the calls of the consumer.      *)
(* Turns are processed one at a time; the consumer requests every event of *)
(* a turn, or leaves its loop at the complete event.                       *)
(***************************************************************************)
\* most turns of one Session
MaxTurns == 2

\* PlannedObjective; turn tells the objects one turn created from those of
\* another turn that carry the same name
Planned(name, type, t) == [name |-> name, description |-> "d1", type |-> type, turn |-> t]

\* what the planner's response parses to in turn t (a failed parse apart)
PlannerOutputs(t) ==
    { <<Planned("a", "respond", t)>>,
      <<Planned("a", "file_exists", t), Planned("b", "respond", t)>>,
      <<Planned("a", "http_ok", t)>> }

\* classifyMessage: the routes
MessageTypes == {"conversational", "arc", "task"}

InitSession ==
    /\ NoCall
    /\ NoAgent
    /\ sconfig \in [maxIterations : {MaxIterations}, requireConfirmation : BOOLEAN]
    /\ turnCount = 0
    /\ history = <<>>
    /\ completedObjectives = <<>>
    /\ pendingObjectives = <<>>
    /\ abortController = 0
    /\ confirmationResolve = 0
    /\ gates = [t \in 1..MaxTurns |-> "none"]
    /\ spc = "idle"
    /\ msgType = ""
    /\ newObjectives = <<>>
    /\ sevents = <<>>
    /\ api = NoApi

SEv(type) == [type |-> type]
ledger == <<history, completedObjectives, pendingObjectives>>
controls == <<abortController, confirmationResolve, gates>>

\* part_006:951-967 and the first yield of the path taken: 985, 1022, 1130
Send ==
    /\ spc \in {"idle", "threw"}
    /\ turnCount < MaxTurns
    /\ turnCount' = turnCount + 1
    /\ history' = Append(history, Msg("user", "message"))
    /\ api' = NoApi
    /\ arg' = Null
    /\ ret' = Null
    /\ \E type \in MessageTypes :
        /\ msgType' = type
        /\ IF type = "conversational"
           THEN /\ newObjectives' = <<Planned("respond", "respond", turnCount')>>
                /\ pendingObjectives' = newObjectives'
                /\ sevents' = <<SEv("planning")>>
                /\ spc' = "conv_planning"
           ELSE /\ newObjectives' = <<>>
                /\ pendingObjectives' = pendingObjectives
                /\ sevents' = <<SEv("replanning")>>
                /\ spc' = IF type = "arc" THEN "arc_replanning" ELSE "task_replanning"
    /\ UNCHANGED <<agent, sconfig, completedObjectives, controls>>

\* part_006:1196, newObjectives.every(p => p.type === "respond")
isConversational(planned) == \A n \in 1..Len(planned) : planned[n].type = "respond"

\* part_006:1214-1216, measureSync over newObjectives.map(hydrateObjective):
\* null when one call throws, and the Agent then takes config.objectives || []
Hydrated(planned) ==
    IF \A n \in 1..Len(planned) : hydrateObjective(planned[n]).kind = "returned"
    THEN planned
    ELSE <<>>

\* part_006:1215, the objectives the executor of a task turn is built from
TaskObjectives(completed, planned) == planned

\* new Agent({...this.config, objectives}), this.abortController = new
\* AbortController(), and agent.run(input, signal) is called: part_006:991-1003,
\* 1059-1074, 1218-1232.  An objective is denoted by the planned objective
\* its validator closes over
StartExecutor(objs, vals, maxIt) ==
    /\ objectives' = objs
    /\ validate' = vals
    /\ maxIterations' = maxIt
    /\ pc' = "idle"
    /\ abortController' = turnCount
    /\ spc' = "running"
    /\ UNCHANGED <<aborted, i, runState, locals, inFlight, emitted, counts, calls>>

\* part_006:988-1003
ConversationalRun ==
    /\ spc = "conv_planning"
    /\ StartExecutor(newObjectives, <<hydrateObjective(newObjectives[1]).value.validate>>,
                     sconfig.maxIterations)
    /\ UNCHANGED <<arg, ret, sconfig, turnCount, ledger, confirmationResolve, gates,
                   msgType, newObjectives, sevents, api>>

\* part_006:1025-1034, the puzzle id is looked up in the message
ArcStart ==
    /\ spc = "arc_replanning"
    /\ \/ /\ sevents' = Append(sevents, SEv("error"))
          /\ spc' = "turn_error"
       \/ /\ sevents' = sevents
          /\ spc' = "arc_fetch"
    /\ UNCHANGED <<agent, arg, ret, sconfig, turnCount, ledger, controls, msgType,
                   newObjectives, api>>

\* part_006:1034-1056, fetchPuzzle settles
ArcFetched ==
    /\ spc = "arc_fetch"
    /\ \/ /\ sevents' = Append(sevents, SEv("error"))
          /\ spc' = "turn_error"
          /\ UNCHANGED <<newObjectives, pendingObjectives>>
       \/ /\ newObjectives' = <<Planned("solve_puzzle", "custom_check", turnCount)>>
          /\ pendingObjectives' = newObjectives'
          /\ sevents' = Append(sevents, SEv("planning"))
          /\ spc' = "arc_planning"
    /\ UNCHANGED <<agent, arg, ret, sconfig, turnCount, history, completedObjectives,
                   controls, msgType, api>>

\* maxIterations: 10 of part_006:1063, within the bound of the model; the
\* iterations from 7 on lie beyond it
ArcIterations == IF 10 < MaxIterations THEN 10 ELSE MaxIterations

\* part_006:1059-1074
ArcRun ==
    /\ spc = "arc_planning"
    /\ StartExecutor(newObjectives, <<"custom">>, ArcIterations)
    /\ UNCHANGED <<arg, ret, sconfig, turnCount, ledger, confirmationResolve, gates,
                   msgType, newObjectives, sevents, api>>

\* part_006:1130-1156, the planner is called
TaskPlanner ==
    /\ spc = "task_replanning"
    /\ spc' = "planner"
    /\ UNCHANGED <<agent, arg, ret, sconfig, turnCount, ledger, controls, msgType,
                   newObjectives, sevents, api>>

\* what the planner call of part_006:1151-1156 gives back: nothing (the call
\* failed and measure returned null), text that is not JSON, JSON that is
\* not a list, or a list
PlannerResponses(t) ==
    {[kind |-> kd, items |-> <<>>] : kd \in {"none", "text", "object", "list"}}
        \cup {[kind |-> "list", items |-> out] : out \in PlannerOutputs(t)}

\* a parse that lets the empty list through
ParseObjectives_AcceptsEmpty(resp) ==
    IF resp.kind = "list"
    THEN Returned(resp.items)
    ELSE Threw("parse")

\* part_006:1159-1169, the function measureSync runs: JSON.parse, then
\* Array.isArray and length
ParseObjectives(resp) ==
    IF resp.kind = "list" /\ Len(resp.items) > 0
    THEN Returned(resp.items)
    ELSE Threw("parse")

\* part_006:1151-1192, the planner returns and its response is parsed; arg
\* and ret record the response and the outcome of the parse
PlannerReturn ==
    /\ spc = "planner"
    /\ \E resp \in PlannerResponses(turnCount) :
        /\ arg' = resp
        /\ ret' = ParseObjectives(resp)
        /\ IF ret'.kind = "threw"
           THEN /\ sevents' = Append(sevents, SEv("error"))
                /\ spc' = "turn_error"
                /\ UNCHANGED <<newObjectives, pendingObjectives>>
           ELSE /\ newObjectives' = ret'.value
                /\ pendingObjectives' = newObjectives'
                /\ sevents' = Append(sevents, SEv("planning"))
                /\ spc' = "task_planning"
    /\ UNCHANGED <<agent, sconfig, turnCount, history, completedObjectives,
                   controls, msgType, api>>

\* a Session that never asks
NeedsConfirmation_Never == FALSE

\* a Session that asks whatever was planned
NeedsConfirmation_Always == sconfig.requireConfirmation

\* part_006:1198, whether the turn stops at the confirmation gate
NeedsConfirmation == sconfig.requireConfirmation /\ ~isConversational(newObjectives)

\* part_006:1199
AwaitConfirmation ==
    /\ spc = "task_planning"
    /\ NeedsConfirmation
    /\ sevents' = Append(sevents, SEv("awaiting_confirmation"))
    /\ spc' = "awaiting_confirmation"
    /\ UNCHANGED <<agent, arg, ret, sconfig, turnCount, ledger, controls, msgType,
                   newObjectives, api>>

\* part_006:1201-1203, the promise is created and awaited
GateOpen ==
    /\ spc = "awaiting_confirmation"
    /\ confirmationResolve' = turnCount
    /\ gates' = [gates EXCEPT ![turnCount] = "pending"]
    /\ spc' = "gate"
    /\ UNCHANGED <<agent, arg, ret, sconfig, turnCount, ledger, abortController, msgType,
                   newObjectives, sevents, api>>

\* a rejection that leaves no trace in the history
GateRejected_Unrecorded ==
    /\ spc = "gate"
    /\ gates[turnCount] = "rejected"
    /\ sevents' = Append(sevents, SEv("error"))
    /\ spc' = "turn_error"
    /\ UNCHANGED <<agent, arg, ret, sconfig, turnCount, ledger, controls, msgType,
                   newObjectives, api>>

\* part_006:1205-1209
GateRejected ==
    /\ spc = "gate"
    /\ gates[turnCount] = "rejected"
    /\ history' = Append(history, Msg("assistant", "Objectives rejected by user."))
    /\ sevents' = Append(sevents, SEv("error"))
    /\ spc' = "turn_error"
    /\ UNCHANGED <<agent, arg, ret, sconfig, turnCount, completedObjectives,
                   pendingObjectives, controls, msgType, newObjectives, api>>

\* part_006:1213-1232
TaskRun ==
    /\ \/ spc = "task_planning" /\ ~NeedsConfirmation
       \/ spc = "gate" /\ gates[turnCount] = "confirmed"
    /\ LET from == TaskObjectives(completedObjectives, newObjectives)
           objs == Hydrated(from)
       IN StartExecutor(objs,
                        [n \in 1..Len(objs) |-> hydrateObjective(objs[n]).value.validate],
                        sconfig.maxIterations)
    /\ UNCHANGED <<arg, ret, sconfig, turnCount, ledger, confirmationResolve, gates,
                   msgType, newObjectives, sevents, api>>

\* a return after an error event: part_006:1028, 1037, 1041, 1177, 1208
TurnErrorReturn ==
    /\ spc = "turn_error"
    /\ spc' = "idle"
    /\ UNCHANGED <<agent, arg, ret, sconfig, turnCount, ledger, controls, msgType,
                   newObjectives, sevents, api>>


\* part_006:1006-1012, 1103-1110, 1236-1242: on the executor's complete event
\* the turn's objectives move to completedObjectives
\* a Session that records the turn's objectives however the loop ended
TrackCompletion_Always ==
    /\ completedObjectives' = completedObjectives \o newObjectives
    /\ pendingObjectives' = <<>>
    /\ history' = Append(history, Msg("assistant", "Completed objectives"))

TrackCompletion_Replace ==
    IF counts.complete > 0
    THEN /\ completedObjectives' = newObjectives
         /\ pendingObjectives' = <<>>
         /\ history' = Append(history, Msg("assistant", "Completed objectives"))
    ELSE UNCHANGED ledger

TrackCompletion ==
    IF counts.complete > 0
    THEN /\ completedObjectives' = completedObjectives \o newObjectives
         /\ pendingObjectives' = <<>>
         /\ history' = Append(history, Msg("assistant", "Completed objectives"))
    ELSE UNCHANGED ledger

\* the executor of the turn is gone once its for-await loop is left
DropExecutor ==
    /\ objectives' = <<>>
    /\ validate' = <<>>
    /\ maxIterations' = 0
    /\ aborted' = FALSE
    /\ pc' = "none"
    /\ i' = 0
    /\ messages' = <<>>
    /\ iteration' = 0
    /\ toolHistory' = <<>>
    /\ touchedFiles' = {}
    /\ accumulated' = <<>>
    /\ streamed' = FALSE
    /\ llmResult' = Null
    /\ invocations' = <<>>
    /\ k' = 1
    /\ toolMessages' = <<>>
    /\ objectiveResults' = <<>>
    /\ caught' = ""
    /\ inFlight' = {}
    /\ emitted' = <<>>
    /\ counts' = NoCounts
    /\ calls' = NoCalls

\* part_006:1087-1088, hasSubmitted once the events of the run were handled:
\* an entry of the tool history stands for its tool_start and tool_result
hasSubmitted(hist) ==
    \E n \in 1..Len(hist) :
        /\ hist[n].tool = "submit_answer"
        /\ hist[n].result # Null
        /\ hist[n].result.success

RECURSIVE TransformCodes(_, _, _)
\* part_006:1079-1092, <<lastRunTransformCode, bestTransformCode>> once the
\* events of the run were handled, "" for null
TransformCodes(hist, lastRun, best) ==
    IF hist = <<>> THEN <<lastRun, best>>
    ELSE LET e == Head(hist)
             l == IF e.tool = "run_transform" /\ e.code # "" THEN e.code ELSE lastRun
             b == IF /\ e.tool = "run_transform"
                     /\ e.result # Null
                     /\ e.result.success
                     /\ l # ""
                  THEN l ELSE best
         IN  TransformCodes(Tail(hist), l, b)

bestTransformCode(hist) == TransformCodes(hist, "", "")[2]

\* part_006:1113, the condition of the forced submission
ForceSubmitDue ==
    /\ msgType = "arc"
    /\ counts.max_iterations > 0
    /\ ~hasSubmitted(toolHistory)
    /\ bestTransformCode(toolHistory) # ""

\* part_006:1113-1119, the forced submission after max_iterations:
\* submitTool.execute is awaited, outside measure(), and then reported; arg
\* and ret record its argument and its outcome
ArcForceSubmit ==
    /\ spc = "running"
    /\ pc = "done"
    /\ ForceSubmitDue
    /\ arg' = [grid |-> bestTransformCode(toolHistory), code |-> TRUE]
    /\ \E outcome \in {Returned(ToolSuccess), Returned(ToolFailure), Threw("TypeError")} :
        /\ ret' = outcome
        /\ IF outcome.kind = "threw"
           THEN /\ DropExecutor
                /\ sevents' = sevents
                /\ spc' = "threw"
           ELSE /\ sevents' = sevents \o <<SEv("tool_start"), SEv("tool_result")>>
                /\ spc' = "arc_forced"
                /\ UNCHANGED agent
    /\ UNCHANGED <<sconfig, turnCount, ledger, controls, msgType, newObjectives, api>>

\* the for-await loop over agent.run ends and the handler returns:
\* part_006:1003-1015, 1074-1122, 1232-1245
TurnEnd ==
    /\ \/ spc = "running" /\ pc = "done" /\ ~ForceSubmitDue
       \/ spc = "arc_forced"
    /\ TrackCompletion
    /\ DropExecutor
    /\ spc' = "idle"
    /\ UNCHANGED <<arg, ret, sconfig, turnCount, controls, msgType, newObjectives,
                   sevents, api>>

\* agent.run threw (agent.ts:86-88) and no handler of the Session catches it
SessionThrows ==
    /\ spc = "running"
    /\ pc = "threw"
    /\ DropExecutor
    /\ spc' = "threw"
    /\ UNCHANGED <<arg, ret, sconfig, turnCount, ledger, controls, msgType,
                   newObjectives, sevents, api>>

\* a resolver that stays in its slot after it was called
ResolveGate_KeepsResolver(value, by) ==
    /\ IF confirmationResolve # 0
       THEN gates' = [gates EXCEPT ![confirmationResolve] =
                        IF @ = "pending" THEN value ELSE @]
       ELSE gates' = gates
    /\ confirmationResolve' = confirmationResolve
    /\ api' = [api EXCEPT !.decided = IF confirmationResolve # 0 /\ @ = "none" THEN by ELSE @,
                          !.inHandler = IF spc = "awaiting_confirmation" /\ by # "abort"
                                        THEN by ELSE @,
                          !.abortCalled = @ \/ by = "abort"]

\* the body of confirmObjectives/rejectObjectives without its guard
ResolveGate_Unguarded(value, by) ==
    /\ IF confirmationResolve # 0
       THEN gates' = [gates EXCEPT ![confirmationResolve] =
                        IF @ = "pending" THEN value ELSE @]
       ELSE gates' = gates
    /\ confirmationResolve' = 0
    /\ api' = [api EXCEPT !.decided = IF confirmationResolve # 0 /\ @ = "none" THEN by ELSE @,
                          !.inHandler = IF spc = "awaiting_confirmation" /\ by # "abort"
                                        THEN by ELSE @,
                          !.threw = @ \/ confirmationResolve = 0,
                          !.abortCalled = @ \/ by = "abort"]

\* part_006:1253-1256 and 1261-1264: if (this.confirmationResolve) { resolve(value);
\* this.confirmationResolve = null }.  A promise is settled by its first resolve
ResolveGate(value, by) ==
    /\ IF confirmationResolve # 0
       THEN /\ gates' = [gates EXCEPT ![confirmationResolve] =
                            IF @ = "pending" THEN value ELSE @]
            /\ confirmationResolve' = 0
       ELSE UNCHANGED <<gates, confirmationResolve>>
    /\ api' = [api EXCEPT !.decided = IF confirmationResolve # 0 /\ @ = "none" THEN by ELSE @,
                          !.inHandler = IF spc = "awaiting_confirmation" /\ by # "abort"
                                        THEN by ELSE @,
                          !.abortCalled = @ \/ by = "abort"]

\* part_006:1252-1257
ConfirmObjectives ==
    /\ spc # "none"
    /\ ResolveGate("confirmed", "confirm")
    /\ UNCHANGED <<agent, arg, ret, sconfig, turnCount, ledger, abortController, spc,
                   msgType, newObjectives, sevents>>

\* part_006:1260-1265
RejectObjectives ==
    /\ spc # "none"
    /\ ResolveGate("rejected", "reject")
    /\ UNCHANGED <<agent, arg, ret, sconfig, turnCount, ledger, abortController, spc,
                   msgType, newObjectives, sevents>>

\* the controller in this.abortController is the one whose signal the running
\* executor was given (part_006:1001-1003, 1068-1074, 1230-1232)
LoopInFlight == pc \notin {"none", "done", "threw"}

\* abort() without its call of rejectObjectives()
AbortSession_LoopOnly ==
    /\ spc # "none"
    /\ aborted' = (aborted \/ (abortController = turnCount /\ pc # "none"))
    /\ abortController' = 0
    /\ UNCHANGED <<confirmationResolve, gates, api>>
    /\ UNCHANGED <<config, pc, i, runState, locals, inFlight, emitted, counts, calls>>
    /\ UNCHANGED <<arg, ret, sconfig, turnCount, ledger, spc, msgType, newObjectives,
                   sevents>>

\* part_006:1273-1280
AbortSession ==
    /\ spc # "none"
    /\ aborted' = (aborted \/ (abortController = turnCount /\ pc # "none"))
    /\ abortController' = 0
    /\ ResolveGate("rejected", "abort")
    /\ UNCHANGED <<config, pc, i, runState, locals, inFlight, emitted, counts, calls>>
    /\ UNCHANGED <<arg, ret, sconfig, turnCount, ledger, spc, msgType, newObjectives,
                   sevents>>

\* the consumer leaves its for-await loop when it receives complete, as the
\* loop of part_006:165-209 does: the generator of send() is closed at the
\* yield of part_006:1004, 1075 or 1233 and the rest of its loop body is not
\* run
ConsumerBreaks ==
    /\ spc = "running"
    /\ pc = "done"
    /\ counts.complete > 0
    /\ DropExecutor
    /\ spc' = "idle"
    /\ UNCHANGED <<arg, ret, sconfig, turnCount, ledger, controls, msgType, newObjectives,
                   sevents, api>>

\* a step of the generator returned by send(), the executor's steps included
SessionResume ==
    \/ ConversationalRun
    \/ ArcStart
    \/ ArcFetched
    \/ ArcRun
    \/ TaskPlanner
    \/ PlannerReturn
    \/ AwaitConfirmation
    \/ GateOpen
    \/ GateRejected
    \/ TaskRun
    \/ TurnErrorReturn
    \/ ArcForceSubmit
    \/ TurnEnd
    \/ SessionThrows
    \/ (spc = "running" /\ Resume)

NextSession ==
    \/ Send
    \/ SessionResume
    \/ ConfirmObjectives
    \/ RejectObjectives
    \/ AbortSession
    \/ ConsumerBreaks

SpecSession == InitSession /\ [][NextSession]_vars

\* the consumer requests every event of the turn (for await), so the generator
\* keeps being resumed; no call of the control methods is assumed
SpecSessionFair == SpecSession /\ WF_vars(SessionResume)

(***************************************************************************)
(* classifyMessage (part_006:864-900).  A message is its lower-cased,      *)
(* trimmed text, seen as the words its patterns look for, in order, a      *)
(* number of further words no pattern looks for, and whether it ends with  *)
(* a question mark.                                                        *)
(***************************************************************************)

MaxWords == 3

\* one or two words of each alternation of the patterns
Vocabulary ==
    {"arc", "solve", "0d3d703e", "create", "file", "run", "test", "send", "report.md",
     "what"}

\* arg.message ranges over these
ClassifiedMessages ==
    [words : UNION {[1..n -> Vocabulary] : n \in 0..MaxWords},
     others : {0, 3, 4, 9},
     question : BOOLEAN]

\* word a is followed, later in the text, by word b: /\b(a)\b.*\b(b)\b/
Follows(words, as, bs) ==
    \E m, n \in 1..Len(words) : m < n /\ words[m] \in as /\ words[n] \in bs

\* some word of the text is one of ws: /\b(ws)\b/
Has(words, ws) == \E n \in 1..Len(words) : words[n] \in ws

\* part_006:867-875, the two puzzle rules
MatchesPuzzle(msg) ==
    \/ Has(msg.words, {"arc"}) /\ Has(msg.words, {"solve", "run"})
    \/ Has(msg.words, {"0d3d703e"}) /\ Has(msg.words, {"solve", "arc"})

\* part_006:878-884, taskPatterns.some
MatchesTask(msg) ==
    \/ Follows(msg.words, {"create"}, {"file", "test"})
    \/ Follows(msg.words, {"run"}, {"test"})
    \/ Has(msg.words, {"send"})
    \/ Follows(msg.words, {"create"}, {"report.md"})

\* part_006:887-893, conversationalPatterns.some: the three patterns
\* anchored at the start of the text, and the final question mark
MatchesConversational(msg) ==
    \/ Len(msg.words) > 0 /\ msg.words[1] = "what"
    \/ msg.question

\* part_006:896, lower.split(/\s+/).length <= 8
IsShort(msg) == Len(msg.words) + msg.others <= 8

\* a classifier that tries the conversational patterns before the task patterns
classifyMessage_ConversationalFirst(message, hasHistory) ==
    IF MatchesPuzzle(message) THEN "arc"
    ELSE IF MatchesConversational(message) THEN "conversational"
    ELSE IF MatchesTask(message) THEN "task"
    ELSE IF hasHistory /\ IsShort(message) THEN "conversational"
    ELSE "task"

classifyMessage(message, hasHistory) ==
    IF MatchesPuzzle(message) THEN "arc"
    ELSE IF MatchesTask(message) THEN "task"
    ELSE IF MatchesConversational(message) THEN "conversational"
    ELSE IF hasHistory /\ IsShort(message) THEN "conversational"
    ELSE "task"

InitClassify ==
    /\ NoAgent
    /\ NoSession
    /\ arg \in [message : ClassifiedMessages, hasHistory : BOOLEAN]
    /\ ret = NotCalled

\* classifyMessage(message, hasHistory) is called
Classify ==
    /\ ret = NotCalled
    /\ ret' = Returned(classifyMessage(arg.message, arg.hasHistory))
    /\ UNCHANGED <<agent, arg, session>>

SpecClassify == InitClassify /\ [][Classify]_vars

(***************************************************************************)
(* The validate functions hydrateObjective builds (objectives.ts:11-126),  *)
(* called on a RunState.  Of a text (a command, an output, a file) the     *)
(* model keeps which of the looked-for texts it contains.                  *)
(***************************************************************************)

MaxHistory == 2

\* what tool.execute gave, as pushed by agent.ts:292-294: a result with its
\* success flag and whether its output contains the objective's text, or
\* null when the tool threw
HistoryEntries ==
    LET results == [success : BOOLEAN, hasText : BOOLEAN] \cup {Null}
    IN  [tool : {"exec"}, command : SUBSET {"bun", "test"}, action : {""},
         result : results]
            \cup [tool : {"schedule"}, command : {{}}, action : {"create", "list"},
                  result : results]

\* the RunState a validator is given; messages and touchedFiles, which no
\* validator reads, are left out
RunStates ==
    [iteration : {0},
     toolHistory : UNION {[1..n -> HistoryEntries] : n \in 0..MaxHistory}]

\* the file an objective names, as Bun.file(path) finds it
Disks == {"absent", "without_text", "with_text"}

\* planned objectives of the seven template types; a command is its
\* whitespace-separated words, each of more than one character
ValidatedObjectives ==
    [type : {"file_exists"}, contains : BOOLEAN, command : {<<>>}]
        \cup [type : {"file_contains", "custom_check", "respond", "task_scheduled"},
              contains : {TRUE}, command : {<<>>}]
        \cup [type : {"command_succeeds", "command_output_contains"}, contains : {TRUE},
              command : {<<"bun", "test">>, <<"test">>}]

\* objective.validate(state), objective being hydrateObjective(planned, cwd)
Validator(planned, state, disk) ==
    LET entries  == state.toolHistory
        Met(r)   == Returned([met |-> TRUE, reason |-> r])
        NotMet(r) == Returned([met |-> FALSE, reason |-> r])
        \* cmd.split(/\s+/).filter(w => w.length > 1), objectives.ts:52, 71;
        \* the filter keeps every word of the commands above
        keywords == {planned.command[n] : n \in 1..Len(planned.command)}
        \* the predicate of findLast, objectives.ts:53-55, 72-74
        execs    == {n \in 1..Len(entries) :
                        /\ entries[n].tool = "exec"
                        /\ \E kw \in keywords : kw \in entries[n].command}
        last(S)  == CHOOSE n \in S : \A m \in S : m <= n
        first(S) == CHOOSE n \in S : \A m \in S : n <= m
        \* the entries at which a scan that reads t.result.success stops
        stops(S) == {n \in S : entries[n].result = Null \/ entries[n].result.success}
    IN  CASE planned.type = "file_exists" ->
                IF disk = "absent" THEN NotMet("File not found")
                ELSE IF planned.contains /\ disk # "with_text"
                     THEN NotMet("File exists but missing")
                     ELSE Met("File exists")
          [] planned.type = "file_contains" ->
                IF disk = "absent" THEN NotMet("File not found")
                ELSE IF disk # "with_text" THEN NotMet("File missing content")
                     ELSE Met("File contains required content")
          [] planned.type = "command_succeeds" ->
                IF execs = {} THEN NotMet("not executed yet")
                ELSE IF entries[last(execs)].result = Null THEN Threw("TypeError")
                ELSE IF entries[last(execs)].result.success
                     THEN Met("Command succeeded")
                     ELSE NotMet("Command failed")
          [] planned.type = "command_output_contains" ->
                IF execs = {} THEN NotMet("not executed yet")
                ELSE IF entries[last(execs)].result = Null THEN Threw("TypeError")
                ELSE IF ~entries[last(execs)].result.hasText
                     THEN NotMet("Output missing")
                     ELSE Met("Output contains")
          [] planned.type = "custom_check" ->
                LET S == stops(1..Len(entries))
                IN  IF S = {} THEN NotMet("No successful tool execution yet")
                    ELSE IF entries[first(S)].result = Null THEN Threw("TypeError")
                    ELSE Met("Tool execution succeeded")
          [] planned.type = "respond" ->
                IF state.iteration >= 0 THEN Met("Response delivered")
                ELSE NotMet("Waiting for response")
          [] planned.type = "task_scheduled" ->
                LET S == stops({n \in 1..Len(entries) :
                                  entries[n].tool = "schedule" /\ entries[n].action = "create"})
                IN  IF S = {} THEN NotMet("No task scheduled yet")
                    ELSE IF entries[last(S)].result = Null THEN Threw("TypeError")
                    ELSE Met("Task scheduled")

\* arg is the objective, the RunState and the file system of the calls; ret
\* is the sequence of their outcomes
InitValidate ==
    /\ NoAgent
    /\ NoSession
    /\ arg \in [planned : ValidatedObjectives, state : RunStates, disk : Disks]
    /\ ret = <<>>

\* a custom_check that also looks for the file
Validate_CustomReadsDisk ==
    /\ Len(ret) < 2
    /\ ret' = Append(ret,
                IF arg.planned.type = "custom_check" /\ arg.disk = "absent"
                THEN Returned([met |-> FALSE, reason |-> "File not found"])
                ELSE Validator(arg.planned, arg.state, arg.disk))
    /\ UNCHANGED <<agent, arg, session>>

\* objective.validate(state) is called, a first and a second time
Validate ==
    /\ Len(ret) < 2
    /\ ret' = Append(ret, Validator(arg.planned, arg.state, arg.disk))
    /\ UNCHANGED <<agent, arg, session>>

\* between the two calls the file is written or removed, by a tool of the
\* run or by anything else
DiskChanges ==
    /\ Len(ret) = 1
    /\ \E disk \in Disks \ {arg.disk} : arg' = [arg EXCEPT !.disk = disk]
    /\ UNCHANGED <<agent, ret, session>>

NextValidate ==
    \/ Validate
    \/ DiskChanges

SpecValidate == InitValidate /\ [][NextValidate]_vars

(***************************************************************************)
(* Agent.plan (agent.ts:135-186): one planner call, the parse of its       *)
(* response, the hydration of the planned objectives, and the loop of a    *)
(* new Agent, which is run without an AbortSignal.                         *)
(***************************************************************************)
InitPlan ==
    /\ NoCall
    /\ NoSession
    /\ objectives = <<>>
    /\ validate = <<>>
    /\ maxIterations \in 0..MaxIterations
    /\ aborted = FALSE
    /\ pc = "plan"
    /\ i = 0
    /\ messages = <<>>
    /\ iteration = 0
    /\ toolHistory = <<>>
    /\ touchedFiles = {}
    /\ accumulated = <<>>
    /\ streamed = FALSE
    /\ llmResult = Null
    /\ invocations = <<>>
    /\ k = 1
    /\ toolMessages = <<>>
    /\ objectiveResults = <<>>
    /\ caught = ""
    /\ inFlight = {}
    /\ emitted = <<>>
    /\ counts = NoCounts
    /\ calls = NoCalls

\* agent.ts:136-154, callText is called and awaited
PlanCall ==
    /\ pc = "plan"
    /\ inFlight' = inFlight \cup {Op("planner", 0)}
    /\ pc' = "planner"
    /\ UNCHANGED <<outside, config, aborted, i, runState, locals, emitted, counts, calls>>

\* agent.ts:149-185, the planner call settles (measure() turns a throw into
\* null): the parse, which is the one of part_006:1159-1169, then the
\* hydration, the planning event and the new Agent; arg and ret record the
\* response and the outcome of the parse
PlanReturn ==
    /\ pc = "planner"
    /\ inFlight' = inFlight \ {Op("planner", 0)}
    /\ \E resp \in PlannerResponses(0) :
        /\ arg' = resp
        /\ ret' = ParseObjectives(resp)
        /\ IF ret'.kind = "threw"
           THEN /\ Emit([type |-> "error", iteration |-> -1,
                         error |-> "Planner failed to generate objectives"])
                /\ pc' = "done"
                /\ UNCHANGED <<objectives, validate>>
           ELSE IF \E n \in 1..Len(ret'.value) :
                      hydrateObjective(ret'.value[n]).kind = "threw"
                THEN /\ pc' = "threw"
                     /\ UNCHANGED <<objectives, validate, emitted, counts>>
                ELSE /\ Emit([type |-> "planning", objectives |-> ret'.value])
                     /\ objectives' = ret'.value
                     /\ validate' = [n \in 1..Len(ret'.value) |->
                                        hydrateObjective(ret'.value[n]).value.validate]
                     /\ pc' = "idle"
    /\ UNCHANGED <<session, maxIterations, aborted, i, runState, locals, calls>>

\* a step of the generator plan() returned; from agent.ts:185 on it is the
\* generator of agent.run(input)
NextPlan ==
    \/ PlanCall
    \/ PlanReturn
    \/ (pc \notin {"plan", "planner"} /\ Resume)

SpecPlan == InitPlan /\ [][NextPlan]_vars

\* part_006:1288-1290, Session.getObjectives()
getObjectives == completedObjectives \o pendingObjectives

(***************************************************************************)
(* Properties of the event stream of one run.                              *)
(***************************************************************************)
Last(seq) == seq[Len(seq)]
OfType(type) == SelectSeq(emitted, LAMBDA e : e.type = type)
TerminalCount == counts.complete + counts.max_iterations + counts.cancelled
\* the corrective user messages of agent.ts:231, 241 and 338-341
Corrective == {Msg("user", "Empty response. Try again."), Msg("user", "Recover and continue.")}
\* the messages the current iteration appended to state.messages
Pushed == SubSeq(messages, calls.mark + 1, Len(messages))

\* C1: a run with a non-empty objective set emits at most maxIterations
\* iteration_start events; no terminal event (complete, max_iterations,
\* cancelled) is emitted before the run ends, and when the run has ended
\* exactly one was emitted and it is the last event; the run does not end by
\* an exception.
C1_OneTerminalEventLast ==
    Len(objectives) > 0 =>
        /\ counts.iteration_start <= maxIterations
        /\ pc # "threw"
        /\ pc # "done" => TerminalCount = 0
        /\ pc = "done" =>
            /\ TerminalCount = 1
            /\ emitted # <<>>
            /\ Last(emitted).type \in Terminal
            /\ \A n \in 1..(Len(emitted) - 1) : emitted[n].type \notin Terminal

\* a run of the largest number of iterations ended, each iteration having
\* emitted its iteration_start
C1_Witness ==
    /\ pc = "done"
    /\ maxIterations = MaxIterations
    /\ counts.iteration_start = MaxIterations
    /\ counts.max_iterations = 1

\* C2: complete is emitted exactly when the objective_check of the
\* iteration reports met for every configured objective: it directly follows
\* that objective_check, carries its iteration and is the last event; after
\* an objective_check with an unmet objective the iteration ends without
\* complete.
C2_CompleteIffAllMet ==
    /\ \A n \in 1..Len(emitted) :
        emitted[n].type = "objective_check" =>
            LET every == /\ Len(emitted[n].results) = Len(objectives)
                         /\ \A m \in 1..Len(emitted[n].results) : emitted[n].results[m].met
            IN IF n = Len(emitted)
               THEN \/ pc = "decide"
                    \/ pc = "iteration_end" /\ ~every
               ELSE /\ every
                    /\ n + 1 = Len(emitted)
                    /\ emitted[n + 1] = Ev("complete", emitted[n].iteration)
                    /\ pc = "done"
    /\ counts.complete > 0 =>
        /\ pc = "done"
        /\ Len(emitted) >= 2
        /\ Last(emitted).type = "complete"
        /\ emitted[Len(emitted) - 1].type = "objective_check"
        /\ emitted[Len(emitted) - 1].iteration = i

\* complete was emitted in the second iteration, after a first iteration
\* whose check was not all met
C2_Witness ==
    /\ counts.complete = 1
    /\ i = 1
    /\ Len(OfType("objective_check")) = 1

\* C3: a run that ended without complete and without cancelled emitted
\* exactly maxIterations iteration_start events, numbered 0..maxIterations-1
\* in order, then exactly one max_iterations event carrying maxIterations.
C3_ExhaustionAfterMaxIterations ==
    /\ \A n \in 1..Len(emitted) :
        emitted[n].type = "iteration_start" =>
            /\ n = 1
            /\ emitted[n].iteration = counts.iteration_start - 1
            /\ emitted[n].iteration = i
    /\ pc \in {"loop_head", "done"} /\ counts.complete = 0 /\ counts.cancelled = 0
         => counts.iteration_start = i
    /\ (pc = "done" /\ Len(objectives) > 0 /\ counts.complete = 0 /\ counts.cancelled = 0) =>
        /\ counts.iteration_start = maxIterations
        /\ counts.max_iterations = 1
        /\ emitted = <<Ev("max_iterations", maxIterations)>>

\* the run was exhausted and every one of its iterations ended in a
\* recovered error or an empty response
C3_Witness ==
    /\ pc = "done"
    /\ counts.max_iterations = 1
    /\ maxIterations = MaxIterations
    /\ Len(SelectSeq(messages, LAMBDA m : m \in Corrective)) = MaxIterations

\* positions of the generator inside the body of an iteration
BodyPcs == {"stream_call", "streaming", "atomic_call", "post_llm", "tools",
            "tool_exec", "check", "decide", "catch", "iteration_end"}

\* C4: the abort signal is looked at only at the iteration boundary.  While
\* the signal is set inside iteration i the generator goes on with the
\* iteration's steps (the tool call in flight returns, the remaining
\* invocations and the objective check run) and cancelled cannot be emitted
\* there; at the boundary of a further iteration with the signal set the
\* only step is to emit cancelled and stop, no iteration_start is emitted;
\* cancelled is the only event after the last iteration ended and carries
\* the number of the iteration that was not started.
C4_CancellationAtBoundaryOnly ==
    /\ (aborted /\ pc \in BodyPcs) =>
        /\ ENABLED Resume
        /\ ~ENABLED Cancelled
        /\ pc = "tool_exec" => ENABLED ToolReturn
        /\ (pc = "tools" /\ k <= Len(invocations)) => ENABLED (ToolStart \/ UnknownTool)
        /\ (pc = "tools" /\ k > Len(invocations)) => ENABLED ToolsDone
        /\ pc = "check" => ENABLED CheckObjectives
    /\ (aborted /\ pc = "loop_head" /\ i < maxIterations) =>
        /\ ENABLED Cancelled
        /\ ~ENABLED IterationStart
        /\ ~ENABLED ExhaustIterations
    /\ counts.cancelled > 0 =>
        /\ pc = "done"
        /\ aborted
        /\ emitted = <<Ev("cancelled", i)>>
        /\ counts.iteration_start = i

\* the signal is set while a tool call of iteration 0 is in flight and
\* another invocation is still to come
C4_Witness ==
    /\ aborted
    /\ pc = "tool_exec"
    /\ i = 0
    /\ k < Len(invocations)

\* the iteration failed: the atomic call delivered nothing, a tool's execute
\* threw, or the response read raised
FailedAtomic == calls.atomic = 1 /\ pc # "atomic_call" /\ llmResult = Null
FailedTool == \E n \in 1..Len(toolHistory) :
                  toolHistory[n].iteration = i /\ toolHistory[n].result = Null
FailedOther == llmResult # Null /\ ~llmResult.hasToolCalls
Failed == FailedAtomic \/ FailedTool \/ FailedOther

ToolResultEvents == OfType("tool_result")
HistoryOfIteration == SelectSeq(toolHistory, LAMBDA e : e.iteration = i)
\* the indices of the first m invocations whose tool is registered, in order
RegisteredUpTo(m) ==
    SelectSeq([n \in 1..m |-> n], LAMBDA n : IsRegistered(invocations[n].tool))

\* C6: tool invocations run one at a time in extraction order.  While the
\* execute of invocation k is in flight nothing else is, every earlier
\* invocation has its tool_result emitted and, when its tool is registered,
\* its entry in toolHistory; the tool_result events and the toolHistory
\* entries of the iteration follow the order of the invocations.
C6_ToolsSequentialInOrder ==
    LET R == ToolResultEvents
        H == HistoryOfIteration
        started == calls.executed
    IN /\ Cardinality(inFlight) <= 1
       /\ Len(R) <= Len(invocations)
       /\ \A n \in 1..Len(R) : R[n].tool = invocations[n].tool
       /\ IF pc = "tool_exec"
          THEN /\ inFlight = {Op("execute", k)}
               /\ Len(R) = k - 1
               /\ started = RegisteredUpTo(k)
               /\ Len(H) = Len(started) - 1
          ELSE /\ \A op \in inFlight : op.op # "execute"
               /\ started = RegisteredUpTo(Len(R))
               /\ Len(H) = Len(started)
       /\ \A n \in 1..Len(H) :
            /\ H[n].tool = invocations[started[n]].tool
            /\ H[n].params = invocations[started[n]].path
            /\ H[n].result = R[started[n]].result

\* two different registered tools were executed in one iteration
C6_Witness ==
    /\ pc = "check"
    /\ Len(HistoryOfIteration) = 2
    /\ HistoryOfIteration[1].tool # HistoryOfIteration[2].tool

\* C7: an invocation of a tool the registry does not hold gets a tool_result
\* with success false and the error Unknown tool, no tool_start, no call of
\* a tool and no toolHistory entry; it raises nothing, the tool loop goes on
\* with the next invocation, and when the objectives are evaluated every
\* invocation of the iteration has its tool_result; an iteration with
\* invocations in which nothing failed evaluates the objectives.
C7_UnknownToolDoesNotAbort ==
    LET R == ToolResultEvents
        started == {calls.executed[n] : n \in 1..Len(calls.executed)}
    IN /\ Len(R) <= Len(invocations)
       /\ \A n \in 1..Len(R) :
            ~IsRegistered(invocations[n].tool) =>
                /\ R[n].tool = invocations[n].tool
                /\ R[n].result = UnknownToolResult
                /\ n \notin started
       /\ Len(OfType("tool_start")) = Len(calls.executed)
       /\ \A n \in 1..Len(OfType("tool_start")) : IsRegistered(OfType("tool_start")[n].tool)
       /\ \A n \in 1..Len(toolHistory) : IsRegistered(toolHistory[n].tool)
       /\ caught # "" => Failed
       /\ pc = "tools" => Len(R) = k - 1
       /\ (pc \in {"check", "decide"} \/ OfType("objective_check") # <<>>) =>
            Len(R) = Len(invocations)
       /\ (pc = "iteration_end" /\ Len(invocations) > 0 /\ ~Failed) =>
            OfType("objective_check") # <<>>

\* the objectives were evaluated in an iteration whose first invocation named
\* an unknown tool and whose second invocation was executed
C7_Witness ==
    /\ OfType("objective_check") # <<>>
    /\ Len(invocations) = 2
    /\ ~IsRegistered(invocations[1].tool)
    /\ calls.executed = <<2>>

\* C8: every objective_check carries one result per configured objective in
\* declaration order, every validator having been called; a validator that
\* throws yields met false with the validator-error reason for its objective
\* only, the other results are what their validators returned; the iteration
\* of an objective_check has no error event and raised nothing.
C8_ValidatorThrowIsNotMet ==
    /\ Len(OfType("objective_check")) <= 1
    /\ \A n \in 1..Len(emitted) :
        emitted[n].type = "objective_check" =>
            /\ Len(emitted[n].results) = Len(objectives)
            /\ Len(calls.validated) = Len(objectives)
            /\ \A m \in 1..Len(objectives) :
                /\ emitted[n].results[m].name = objectives[m]
                /\ emitted[n].results[m].met = (calls.validated[m] = "met")
                /\ (emitted[n].results[m].reason = "Validator error")
                      = (calls.validated[m] = "throws")
            /\ OfType("error") = <<>>
            /\ caught = ""
            /\ pc \in {"decide", "iteration_end", "done"}

\* the first validator threw and the second one reported met
C8_Witness ==
    /\ OfType("objective_check") # <<>>
    /\ calls.validated = <<"throws", "met">>

\* the iteration has a response behind it
AfterResponse ==
    \/ pc \in {"tools", "tool_exec", "check", "decide", "catch", "iteration_end"}
    \/ pc = "done" /\ counts.complete = 1

\* C9: an iteration whose model text is empty and that got no structured
\* tool call, from the stream or from the atomic call, ends with an error
\* event and a corrective user message, without tool execution and without
\* objective_check.
C9_EmptyResponseIsAnError ==
    LET noCalls == \/ llmResult = Null
                   \/ llmResult.hasToolCalls /\ llmResult.toolCalls = <<>>
    IN (AfterResponse /\ accumulated = <<>> /\ noCalls) =>
        /\ pc = "iteration_end"
        /\ Last(emitted).type = "error"
        /\ OfType("objective_check") = <<>>
        /\ calls.executed = <<>>
        /\ Last(Pushed) \in Corrective

\* C10: an iteration issues at most one streaming request and at most one
\* atomic call, never both in flight; the atomic call is issued only after
\* the streaming attempt failed with no fragment produced (no thinking_delta
\* in the iteration); when the atomic call delivered the response the
\* invocations are its structured tool calls and the text extractor is not
\* run.
C10_AtomicFallbackOnlyBeforeFragments ==
    /\ calls.stream <= 1
    /\ calls.atomic <= 1
    /\ ~(Op("stream", 0) \in inFlight /\ Op("atomic", 0) \in inFlight)
    /\ calls.atomic = 1 =>
        /\ calls.stream = 1
        /\ Op("stream", 0) \notin inFlight
        /\ ~streamed
        /\ OfType("thinking_delta") = <<>>
        /\ calls.extractor = 0
    /\ (calls.atomic = 1 /\ AfterResponse /\ llmResult # Null /\ llmResult.hasToolCalls) =>
        /\ Len(invocations) = Len(llmResult.toolCalls)
        /\ \A n \in 1..Len(invocations) : invocations[n].tool = llmResult.toolCalls[n]

\* the atomic call delivered two structured tool calls and both were handled
C10_Witness ==
    /\ calls.atomic = 1
    /\ pc = "check"
    /\ Len(invocations) = 2

\* C11: an Agent without objectives cannot run.  The first request for an
\* event of run() on an empty objective set throws No objectives defined:
\* nothing else can happen, no event was emitted, no message built, no model
\* request or tool call issued, and after the throw the generator takes no
\* further step (the error is not turned into an event and nothing is
\* retried).  A non-empty objective set never takes that exit.
C11_NoObjectivesThrows ==
    /\ Len(objectives) = 0 =>
        /\ pc \in {"idle", "threw"}
        /\ emitted = <<>>
        /\ counts = NoCounts
        /\ calls = NoCalls
        /\ inFlight = {}
        /\ messages = <<>>
        /\ pc = "idle" => ENABLED RunThrows /\ ~ENABLED Run
        /\ pc = "threw" => ~ENABLED Resume
    /\ Len(objectives) > 0 => ~ENABLED RunThrows

\* run() of an Agent constructed without objectives has thrown
C11_Witness ==
    /\ pc = "threw"
    /\ Len(objectives) = 0

(***************************************************************************)
(* Properties of hydrateObjective.                                         *)
(***************************************************************************)
\* C12: hydrateObjective dispatches over exactly seven types.  For each of
\* file_exists, file_contains, command_succeeds, command_output_contains,
\* custom_check, respond and task_scheduled the call returns an Objective
\* with the planned name and description and the validator of that type; for
\* every other type the call throws and returns no objective.
C12_HydrateClosedDispatch ==
    /\ Cardinality(ObjectiveTypes) = 7
    /\ ret # NotCalled =>
        IF arg.type \in {"file_exists", "file_contains", "command_succeeds",
                         "command_output_contains", "custom_check", "respond",
                         "task_scheduled"}
        THEN /\ ret.kind = "returned"
             /\ ret.value.name = arg.name
             /\ ret.value.description = arg.description
             /\ ret.value.validate = arg.type
        ELSE /\ ret.kind = "threw"
             /\ ret.message = "Unknown objective type"

\* hydrateObjective was called with a type that differs from a case label
\* by its capitals only
C12_Witness ==
    /\ ret # NotCalled
    /\ arg.type = "File_Exists"

(***************************************************************************)
(* Properties of the extractor.                                            *)
(***************************************************************************)
FenceCount(text) == Cardinality({n \in 1..Len(text) : text[n].k = "fence"})
\* a record with a tool and params
WellFormed(item) == ~item.isNull /\ item.tool # "" /\ item.hasParams
\* the text holds a record in the inline shape, inside or outside a fence
HasInlineRecord(text) ==
    \E n \in 1..Len(text) :
        \/ text[n].k = "inline"
        \/ /\ text[n].k = "fence"
           /\ \E m \in 1..Len(text[n].items) : text[n].items[m].inlineForm

\* C13: for a text with exactly one fenced payload that is well-formed JSON
\* and holds N >= 1 records, each with a tool and params (a bare object being
\* a list of one), the extractor returns exactly the N records as
\* invocations, in payload order, tool and params unchanged.
C13_FencedPayloadInOrder ==
    (/\ ret # NotCalled
     /\ FenceCount(arg) = 1
     /\ FirstFence(arg).valid
     /\ Len(FirstFence(arg).items) >= 1
     /\ \A n \in 1..Len(FirstFence(arg).items) : WellFormed(FirstFence(arg).items[n]))
    => /\ ret.kind = "returned"
       /\ ret.value = [n \in 1..Len(FirstFence(arg).items) |->
                          Inv(FirstFence(arg).items[n].tool, FirstFence(arg).items[n].path)]

\* C14: the extractor raises for no text.  When the first fenced payload is
\* malformed, or holds no record with a tool and params, the result is what
\* inline scanning of the text finds; when there is no such fence record and
\* no inline record either, the result is the empty sequence.
C14_ExtractorNeverRaises ==
    ret # NotCalled =>
        LET f == FirstFence(arg)
            nothingFenced ==
                \/ f = Null
                \/ ~f.valid
                \/ \A n \in 1..Len(f.items) : ~WellFormed(f.items[n])
        IN /\ ret.kind = "returned"
           /\ (f # Null /\ ~f.valid) => ret.value = InlineMatches(arg)
           /\ (f # Null /\ \A n \in 1..Len(f.items) : ~f.items[n].isNull /\ ~WellFormed(f.items[n]))
                => ret.value = InlineMatches(arg)
           /\ (nothingFenced /\ ~HasInlineRecord(arg)) => ret.value = <<>>

\* the extractor was run on a text whose only fence is malformed and holds a
\* record in the inline shape, and returned that record
C14_Witness ==
    /\ ret # NotCalled
    /\ arg = <<Fence(<<GoodExec>>, FALSE)>>
    /\ ret.kind = "returned"
    /\ ret.value = <<Inv("exec", "")>>


(***************************************************************************)
(* Properties of a Session.                                                *)
(***************************************************************************)

\* the turn in progress is a task turn stopped by the confirmation gate
GatedTurn ==
    /\ msgType = "task"
    /\ sconfig.requireConfirmation
    /\ Len(newObjectives) > 0
    /\ ~isConversational(newObjectives)

\* the executor of the turn has done something
ExecutorActed == pc # "none" \/ counts # NoCounts \/ inFlight # {}

\* C15: with confirmation required, in a task turn whose planned objectives
\* are not all of type respond the Session's events are planning and then
\* awaiting_confirmation, and the executor does nothing (no iteration_start,
\* no tool_start, no tool execution) unless a call of confirmObjectives()
\* has resolved the gate of the turn; without such a call the turn never
\* executes.
C15_NoExecutionBeforeConfirm ==
    GatedTurn =>
        /\ sevents[1] = SEv("replanning")
        /\ sevents[2] = SEv("planning")
        /\ Len(sevents) >= 3 => sevents[3] = SEv("awaiting_confirmation")
        /\ spc \in {"awaiting_confirmation", "gate", "running"} => Len(sevents) = 3
        /\ ExecutorActed =>
            /\ spc = "running"
            /\ api.decided = "confirm"
            /\ gates[turnCount] = "confirmed"
        /\ api.decided # "confirm" =>
            /\ pc = "none"
            /\ counts.iteration_start = 0
            /\ emitted = <<>>
            /\ calls = NoCalls
            /\ inFlight = {}

C15_Witness ==
    /\ GatedTurn
    /\ api.decided = "confirm"
    /\ counts.iteration_start > 0
    /\ pc = "tool_exec"


\* the turn ended with the rejection error of part_006:1206-1208
RejectionError ==
    /\ spc = "turn_error"
    /\ gates[turnCount] = "rejected"
    /\ sevents[Len(sevents)] = SEv("error")

\* C16: a confirmObjectives() or rejectObjectives() called while the consumer
\* handles the awaiting_confirmation event takes effect: after the confirm
\* an iteration_start follows, after the reject the turn ends with the
\* rejection error, unless another call resolves the gate in between; the
\* turn does not stay suspended forever.
C16_HandlerResolutionTakesEffect ==
    /\ (api.inHandler = "confirm" /\ api.decided = "none")
           ~> (counts.iteration_start > 0 \/ api.decided # "none")
    /\ (api.inHandler = "reject" /\ api.decided = "none")
           ~> (RejectionError \/ api.decided # "none")


\* a call of one of the control methods of the Session
ControlCall == ConfirmObjectives \/ RejectObjectives \/ AbortSession

\* C17: when no confirmation gate is pending, confirmObjectives(),
\* rejectObjectives() and abort() do not throw and leave
\* isAwaitingConfirmation false and history, completedObjectives and
\* pendingObjectives (and the turn's events and position) unchanged.
C17_ControlsNoOpWithoutGate ==
    [][(confirmationResolve = 0 /\ ControlCall) =>
          /\ ~api'.threw
          /\ confirmationResolve' = 0
          /\ UNCHANGED <<ledger, gates, sevents, spc, turnCount>>]_vars

\* a call was made while the generator was suspended at the
\* awaiting_confirmation event, before the gate was created
C17_Witness ==
    /\ api.inHandler # "none"
    /\ spc = "awaiting_confirmation"
    /\ gates[turnCount] = "none"
    /\ confirmationResolve = 0
    /\ ~api.threw


\* the gates that are pending
PendingGates == {t \in 1..MaxTurns : gates[t] = "pending"}

\* C18: the confirmation gate is a single slot resolved at most once.  At
\* most one gate is pending, and it is the one confirmationResolve refers
\* to; a pending gate takes the outcome of the first confirmObjectives(),
\* rejectObjectives() or abort() called while it is pending; a resolved gate
\* never changes again, whatever is called later; and
\* isAwaitingConfirmation is false once the gate is resolved.
C18_GateOutcomes ==
    /\ Cardinality(PendingGates) <= 1
    /\ \A t \in 1..MaxTurns :
        /\ gates[t] = "pending" <=> confirmationResolve = t
        /\ gates[t] # "none" => t <= turnCount
        /\ (t = turnCount /\ gates[t] = "confirmed") => api.decided = "confirm"
        /\ (t = turnCount /\ gates[t] = "rejected") => api.decided \in {"reject", "abort"}
        /\ (t = turnCount /\ gates[t] = "pending") => api.decided = "none"

C18_GateSingleSlot ==
    /\ []C18_GateOutcomes
    /\ [][\A t \in 1..MaxTurns :
            /\ gates[t] \in {"confirmed", "rejected"} => gates'[t] = gates[t]
            /\ (gates[t] = "pending" /\ ConfirmObjectives) =>
                    gates'[t] = "confirmed" /\ confirmationResolve' = 0
            /\ (gates[t] = "pending" /\ (RejectObjectives \/ AbortSession)) =>
                    gates'[t] = "rejected" /\ confirmationResolve' = 0
            /\ gates[t] = "pending" =>
                    (gates'[t] = "pending" \/ ControlCall)]_vars

\* the gate of the first turn was rejected; in the second turn
\* rejectObjectives() was called before the gate existed and
\* confirmObjectives() while it was pending
C18_Witness ==
    /\ turnCount = 2
    /\ gates[1] = "rejected"
    /\ api.inHandler = "reject"
    /\ gates[2] = "confirmed"
    /\ api.decided = "confirm"
    /\ confirmationResolve = 0


\* C19: Session.abort() has both effects in one call.  A pending gate is
\* resolved as rejected, and that turn ends without an executor and without
\* an iteration; a loop in flight has its signal set, after which it starts
\* no further iteration and, at the head of a further iteration, emits
\* cancelled.
C19_AbortEffects ==
    /\ (turnCount > 0 /\ gates[turnCount] = "rejected") =>
        /\ pc = "none"
        /\ counts.iteration_start = 0
        /\ spc \in {"gate", "turn_error", "idle"}
    /\ (spc = "gate" /\ gates[turnCount] = "rejected") =>
        /\ ENABLED GateRejected
        /\ ~ENABLED TaskRun
    /\ LoopInFlight => (aborted \/ abortController = turnCount)
    /\ (aborted /\ pc = "loop_head" /\ i < maxIterations) =>
        /\ ENABLED Cancelled
        /\ ~ENABLED IterationStart
    /\ counts.cancelled > 0 => aborted /\ pc = "done"

C19_AbortBothEffects ==
    /\ []C19_AbortEffects
    /\ [][AbortSession =>
            /\ abortController' = 0
            /\ confirmationResolve' = 0
            /\ \A t \in 1..MaxTurns : gates[t] = "pending" => gates'[t] = "rejected"
            /\ LoopInFlight => aborted']_vars
    /\ [][(aborted /\ spc = "running") =>
            counts'.iteration_start <= counts.iteration_start]_vars

\* abort() rejected the gate of the first turn, whose rejection was recorded,
\* and cancelled the loop of the second
C19_Witness ==
    /\ turnCount = 2
    /\ gates[1] = "rejected"
    /\ \E n \in 1..Len(history) : history[n] = Msg("assistant", "Objectives rejected by user.")
    /\ spc = "running"
    /\ abortController = 0
    /\ aborted
    /\ counts.iteration_start > 0
    /\ counts.cancelled > 0


\* s is an initial part of t
IsPrefix(s, t) == Len(s) <= Len(t) /\ SubSeq(t, 1, Len(s)) = s

\* C20: over all turns of a Session completedObjectives only grows by
\* appending (every step leaves what it held as an initial part of what it
\* holds next), and the executor of a turn is built from objectives planned
\* in that turn only, none of which is in completedObjectives while it runs.
C20_ExecutorObjectives ==
    /\ \A n \in 1..Len(objectives) :
        /\ objectives[n].turn = turnCount
        /\ LoopInFlight =>
              \A m \in 1..Len(completedObjectives) : completedObjectives[m] # objectives[n]
    /\ \A m \in 1..Len(completedObjectives) : completedObjectives[m].turn <= turnCount
    /\ \A m, n \in 1..Len(completedObjectives) :
          m < n => completedObjectives[m].turn <= completedObjectives[n].turn

C20_CompletedAppendOnly ==
    /\ []C20_ExecutorObjectives
    /\ [][IsPrefix(completedObjectives, completedObjectives')]_vars

\* the second turn's executor completed while the first turn's objectives
\* are in completedObjectives
C20_Witness ==
    /\ turnCount = 2
    /\ Len(completedObjectives) > 0
    /\ completedObjectives[1].turn = 1
    /\ spc = "running"
    /\ Len(objectives) > 0
    /\ counts.complete > 0


\* the assistant message of part_006:1009-1012, 1106-1109 and 1238-1241
Summary == Msg("assistant", "Completed objectives")

\* C21: a task turn moves its objectives from pending to completed exactly
\* when its loop completed.  The step that ends a task turn whose loop
\* emitted complete appends the turn's new objectives, in planner order, to
\* completedObjectives, empties pendingObjectives and adds one assistant
\* summary to history; the step that ends a turn whose loop ended with
\* max_iterations or cancelled leaves the ledger as it was; and no other
\* step of a task turn changes completedObjectives.
C21_CompletionMovesObjectives ==
    [][msgType = "task" =>
          /\ (TurnEnd /\ counts.complete > 0) =>
                /\ completedObjectives' = completedObjectives \o newObjectives
                /\ pendingObjectives' = <<>>
                /\ history' = Append(history, Summary)
          /\ (TurnEnd /\ counts.complete = 0) =>
                /\ counts.max_iterations + counts.cancelled = 1
                /\ UNCHANGED ledger
          /\ ~TurnEnd => completedObjectives' = completedObjectives]_vars

\* the second turn, a task turn with two objectives, completed after a first
\* turn that completed too
C21_Witness ==
    /\ turnCount = 2
    /\ msgType = "task"
    /\ spc = "idle"
    /\ Len(newObjectives) = 2
    /\ Len(completedObjectives) > 2
    /\ SubSeq(completedObjectives, Len(completedObjectives) - 1, Len(completedObjectives))
          = newObjectives
    /\ pendingObjectives = <<>>
    /\ history[Len(history)] = Summary


\* the planner's output of the turn fails the strict parse: no response or
\* no JSON, JSON that is not a list, or the empty list
BadPlannerOutput ==
    /\ msgType = "task"
    /\ arg # Null
    /\ \/ arg.kind \in {"none", "text", "object"}
       \/ arg.kind = "list" /\ Len(arg.items) = 0

\* the turn is a task turn that has not got past its planner
BeforePlanning == msgType = "task" /\ spc \in {"task_replanning", "planner"}

\* C22: when the planner's output of a task turn fails the strict parse the
\* turn emits error and ends.  Its events are replanning and error only (no
\* planning, no awaiting_confirmation), there is no gate, no executor and
\* no iteration_start, the turn returns, and a Session that returned can
\* take the next message.
C22_FailedTurn ==
    BadPlannerOutput =>
        /\ ret = Threw("parse")
        /\ sevents = <<SEv("replanning"), SEv("error")>>
        /\ spc \in {"turn_error", "idle"}
        /\ spc = "turn_error" => ENABLED TurnErrorReturn
        /\ (spc = "idle" /\ turnCount < MaxTurns) => ENABLED Send
        /\ gates[turnCount] = "none"
        /\ confirmationResolve = 0
        /\ pc = "none"
        /\ counts = NoCounts
        /\ emitted = <<>>

\* and no step of the turn, from send() to its return, changes
\* completedObjectives or pendingObjectives.
C22_ParseFailureLeavesLedger ==
    /\ []C22_FailedTurn
    /\ [][(BeforePlanning' \/ BadPlannerOutput' \/ BadPlannerOutput) =>
            \/ UNCHANGED <<completedObjectives, pendingObjectives>>
            \/ Send /\ msgType' # "task"]_vars

\* the planner of the second turn gave the empty list while the objectives
\* of an unfinished first turn are pending
C22_Witness ==
    /\ turnCount = 2
    /\ BadPlannerOutput
    /\ arg.kind = "list"
    /\ spc = "idle"
    /\ Len(pendingObjectives) > 0
    /\ pendingObjectives[1].turn = 1


\* the assistant message of part_006:1206
Rejection == Msg("assistant", "Objectives rejected by user.")

\* the gate of the turn in progress was rejected
GateWasRejected == turnCount > 0 /\ gates[turnCount] = "rejected"

\* C23: a rejected gate aborts the turn without execution.  In such a turn
\* there is no executor, no iteration_start, no tool_start and no tool in
\* flight; the turn goes on to record the rejection and emit error, without
\* throwing; and once it returned the Session takes the next message.
C23_RejectedTurn ==
    GateWasRejected =>
        /\ pc = "none"
        /\ counts = NoCounts
        /\ emitted = <<>>
        /\ inFlight = {}
        /\ spc \in {"gate", "turn_error", "idle"}
        /\ spc = "gate" =>
            /\ ENABLED GateRejected
            /\ ~ENABLED TaskRun
            /\ history[Len(history)] # Rejection
        /\ spc \in {"turn_error", "idle"} =>
            /\ history[Len(history)] = Rejection
            /\ history[Len(history) - 1] = Msg("user", "message")
            /\ sevents = <<SEv("replanning"), SEv("planning"),
                           SEv("awaiting_confirmation"), SEv("error")>>
        /\ spc = "turn_error" => ENABLED TurnErrorReturn
        /\ (spc = "idle" /\ turnCount < MaxTurns) => ENABLED Send

\* and the steps of the turn after the rejection add exactly that one
\* message to the history and leave completedObjectives unchanged.
C23_RejectionAbortsTurn ==
    /\ []C23_RejectedTurn
    /\ [][(GateWasRejected /\ turnCount' = turnCount) =>
            /\ completedObjectives' = completedObjectives
            /\ IF spc = "gate" /\ spc' # "gate"
               THEN history' = Append(history, Rejection)
               ELSE history' = history]_vars

\* rejectObjectives() rejected the pending gate and the turn returned
C23_Witness ==
    /\ GateWasRejected
    /\ api.decided = "reject"
    /\ spc = "idle"
    /\ history[Len(history)] = Rejection


\* a task turn whose planner output was accepted
PlannedTurn == msgType = "task" /\ ret # Null /\ ret.kind = "returned"

\* confirmation is required and some new objective is not of type respond
MustConfirm ==
    /\ sconfig.requireConfirmation
    /\ \E n \in 1..Len(newObjectives) : newObjectives[n].type # "respond"

\* awaiting_confirmation is among the events of the turn
Awaited == \E n \in 1..Len(sevents) : sevents[n] = SEv("awaiting_confirmation")

\* C24: in a task turn awaiting_confirmation is emitted if and only if
\* requireConfirmation is true and some newly planned objective has a type
\* other than respond.  After planning the turn's next step is the
\* awaiting_confirmation event in that case and the executor in every other
\* case, in which no gate is created and the turn never suspends.
C24_GateIffRequiredAndNotConversational ==
    PlannedTurn =>
        /\ spc = "task_planning" =>
            /\ ~Awaited
            /\ ENABLED AwaitConfirmation <=> MustConfirm
            /\ ENABLED TaskRun <=> ~MustConfirm
        /\ spc # "task_planning" => (Awaited <=> MustConfirm)
        /\ ~MustConfirm =>
            /\ sevents = <<SEv("replanning"), SEv("planning")>>
            /\ gates[turnCount] = "none"
            /\ confirmationResolve = 0
            /\ spc \in {"task_planning", "running", "idle", "threw"}

\* confirmation is required, every new objective is of type respond, and
\* the loop is running without a gate
C24_Witness ==
    /\ PlannedTurn
    /\ sconfig.requireConfirmation
    /\ ~MustConfirm
    /\ spc = "running"
    /\ counts.iteration_start > 0


\* C25: a conversational message is handled without planner and gate,
\* whatever requireConfirmation is.  The turn has exactly one objective, of
\* type respond, made by the Session itself (the planner is never called);
\* its only Session event is planning (no replanning, no
\* awaiting_confirmation, no gate); its loop is given the whole history of
\* the Session; and the step that ends a turn whose loop completed appends
\* that objective to completedObjectives, empties pendingObjectives and
\* adds one assistant summary.
C25_ConversationalTurn ==
    msgType = "conversational" =>
        /\ newObjectives = <<Planned("respond", "respond", turnCount)>>
        /\ arg = Null /\ ret = Null
        /\ sevents = <<SEv("planning")>>
        /\ gates[turnCount] = "none"
        /\ confirmationResolve = 0
        /\ spc \in {"conv_planning", "running", "idle"}
        /\ pc # "none" =>
            /\ objectives = newObjectives
            /\ validate = <<"respond">>
        /\ pc \notin {"none", "idle"} =>
            /\ Len(messages) > Len(history)
            /\ SubSeq(messages, 2, Len(history) + 1) = history
            /\ history[Len(history)] = Msg("user", "message")

C25_ConversationalFastPath ==
    /\ []C25_ConversationalTurn
    /\ [][msgType = "conversational" =>
            IF TurnEnd /\ counts.complete > 0
            THEN /\ completedObjectives' = Append(completedObjectives, newObjectives[1])
                 /\ pendingObjectives' = <<>>
                 /\ history' = Append(history, Summary)
            ELSE \/ UNCHANGED ledger
                 \/ Send]_vars

\* with confirmation required, the loop of a conversational second turn
\* completed on a history of more than one message
C25_Witness ==
    /\ msgType = "conversational"
    /\ sconfig.requireConfirmation
    /\ turnCount = 2
    /\ Len(history) > 2
    /\ spc = "running"
    /\ counts.complete > 0


(***************************************************************************)
(* Properties of classifyMessage.                                          *)
(***************************************************************************)

\* "What did you just create?"
ScenarioD == [words |-> <<"what", "create">>, others |-> 3, question |-> TRUE]

\* "Create a file called report.md with notes"
ScenarioE == [words |-> <<"create", "file", "report.md">>, others |-> 4, question |-> FALSE]

\* C26: classifyMessage returns the route of the first rule that matches,
\* in the order puzzle rules, task patterns, conversational patterns, short
\* follow-up (history and at most 8 words), and task when none matches.
\* ("What did you just create?", true) is conversational, ("Create a file
\* called report.md with notes", false) is task, and a message that matches
\* a task pattern and a conversational pattern is a task.
C26_ClassifierPriority ==
    ret # NotCalled =>
        LET msg == arg.message
            route == ret.value
        IN  /\ ret.kind = "returned"
            /\ MatchesPuzzle(msg) => route = "arc"
            /\ (~MatchesPuzzle(msg) /\ MatchesTask(msg)) => route = "task"
            /\ (~MatchesPuzzle(msg) /\ ~MatchesTask(msg) /\ MatchesConversational(msg)) =>
                    route = "conversational"
            /\ (~MatchesPuzzle(msg) /\ ~MatchesTask(msg) /\ ~MatchesConversational(msg)) =>
                    route = IF arg.hasHistory /\ Len(msg.words) + msg.others <= 8
                            THEN "conversational" ELSE "task"
            /\ (msg = ScenarioD /\ arg.hasHistory) => route = "conversational"
            /\ (msg = ScenarioE /\ ~arg.hasHistory) => route = "task"

\* a question that asks to create a file was classified
C26_Witness ==
    /\ ret # NotCalled
    /\ arg.message.words = <<"what", "create", "file">>
    /\ arg.message.question
    /\ ret.value = "task"


(***************************************************************************)
(* Properties of the validators.                                           *)
(***************************************************************************)

\* the entries of the history that are calls of the executor whose command
\* contains every word of the objective's command
FullMatches ==
    {n \in 1..Len(arg.state.toolHistory) :
        /\ arg.state.toolHistory[n].tool = "exec"
        /\ \A m \in 1..Len(arg.planned.command) :
              arg.planned.command[m] \in arg.state.toolHistory[n].command}

\* the result recorded by the most recent of them
LastFullMatch ==
    arg.state.toolHistory[CHOOSE n \in FullMatches : \A m \in FullMatches : m <= n].result

\* the first call of validate reported the objective met
ReportedMet == ret[1].kind = "returned" /\ ret[1].value.met

\* (In C27 to C29 a call of validate that throws counts as met not being
\* reported.)
\* C27: a command_succeeds objective is decided by the most recent entry of
\* the executor whose command contains every word of the target command:
\* without such an entry it is not met, "not executed yet"; otherwise it is
\* met if and only if that entry's result succeeded.  An entry that contains
\* only some of the words does not count.
C27_CommandSucceeds ==
    (Len(ret) > 0 /\ arg.planned.type = "command_succeeds") =>
        IF FullMatches = {}
        THEN ret[1].kind = "returned" =>
                ret[1] = Returned([met |-> FALSE, reason |-> "not executed yet"])
        ELSE ReportedMet <=> (LastFullMatch # Null /\ LastFullMatch.success)

\* C28: a command_output_contains objective is met if and only if the most
\* recent matching entry of the executor exists, its result succeeded and
\* its output contains the target text; without a matching entry it is not
\* met, "not executed yet".
C28_CommandOutputContains ==
    (Len(ret) > 0 /\ arg.planned.type = "command_output_contains") =>
        IF FullMatches = {}
        THEN ret[1].kind = "returned" =>
                ret[1] = Returned([met |-> FALSE, reason |-> "not executed yet"])
        ELSE ReportedMet <=>
                /\ LastFullMatch # Null
                /\ LastFullMatch.success
                /\ LastFullMatch.hasText

\* C29: a custom_check objective is met if and only if some entry of the
\* whole history, of whatever tool, has a successful result.
C29_CustomCheck ==
    (Len(ret) > 0 /\ arg.planned.type = "custom_check") =>
        ReportedMet <=>
            \E n \in 1..Len(arg.state.toolHistory) :
                /\ arg.state.toolHistory[n].result # Null
                /\ arg.state.toolHistory[n].result.success

FileTypes == {"file_exists", "file_contains"}

Appended == SubSeq(messages, calls.mark + 1, Len(messages))

\* the iteration ended after an objective check that was not all met
EndedUnmet == pc = "iteration_end" /\ objectiveResults # <<>>

\* C31: an iteration whose objective check is not all met appends a feedback
\* message if and only if it extracted no invocation; the message is the
\* last one of the iteration, it names every objective that is not met,
\* with its reason, and no objective that is met.
C31_FeedbackIffNoInvocations ==
    EndedUnmet =>
        IF Len(invocations) = 0
        THEN /\ Appended # <<>>
             /\ Last(Appended) = Msg("user", "objectives NOT met")
             /\ calls.feedback # Null
             /\ \A n \in 1..Len(objectiveResults) :
                   ~objectiveResults[n].met <=>
                       \E j \in 1..Len(calls.feedback.lines) :
                           calls.feedback.lines[j] = [name |-> objectiveResults[n].name,
                                                reason |-> objectiveResults[n].reason]
             /\ \A j \in 1..Len(calls.feedback.lines) :
                   \E n \in 1..Len(objectiveResults) :
                       /\ ~objectiveResults[n].met
                       /\ calls.feedback.lines[j].name = objectiveResults[n].name
        ELSE /\ calls.feedback = Null
             /\ \A n \in 1..Len(Appended) :
                   Appended[n] # Msg("user", "objectives NOT met")

\* no invocation was extracted, one objective is met and the other is not:
\* the feedback has one line
C31_Witness ==
    /\ EndedUnmet
    /\ Len(invocations) = 0
    /\ objectiveResults[1].met
    /\ ~objectiveResults[2].met
    /\ Len(calls.feedback.lines) = 1

\* invocations were extracted, one named an unknown tool and the other
\* failed: no feedback
C31_WitnessInvocations ==
    /\ EndedUnmet
    /\ Len(invocations) = 2
    /\ \A n \in 1..Len(toolMessages) : toolMessages[n].text # "ok"
    /\ Len(toolMessages) = 2

RECURSIVE Deltas(_)
\* the text of the fragments among the events
Deltas(evs) ==
    IF evs = <<>> THEN <<>>
    ELSE (IF Head(evs).type = "thinking_delta" THEN Head(evs).delta ELSE <<>>)
         \o Deltas(Tail(evs))

HasFence(text) == \E n \in 1..Len(text) : text[n].k = "fence"

\* the iteration ran the extractor over the streamed text and got
\* invocations from a text with a fenced payload
ExtractedFromFence ==
    /\ pc \in {"tools", "tool_exec", "check", "decide", "iteration_end"}
    /\ calls.extractor = 1
    /\ Len(invocations) > 0
    /\ HasFence(Deltas(emitted))

\* C32: on the streaming path the thinking event and the assistant message
\* of an iteration do not contain the fenced payload the invocations were
\* extracted from; when the response is the payload alone there is no
\* thinking event and the assistant message is the summary of the
\* invocations.
C32_PayloadStripped ==
    ExtractedFromFence =>
        /\ \A n \in 1..Len(emitted) :
              emitted[n].type = "thinking" => ~HasFence(emitted[n].message)
        /\ messages[calls.mark + 1].role = "assistant"
        /\ (\A n \in 1..Len(Deltas(emitted)) : Deltas(emitted)[n].k = "fence") =>
              /\ \A n \in 1..Len(emitted) : emitted[n].type # "thinking"
              /\ messages[calls.mark + 1] = Msg("assistant", "invocation summary")

(***************************************************************************)
(* Properties of a puzzle turn.                                            *)
(***************************************************************************)

\* the run_transform calls of the run that succeeded
GoodTransforms ==
    {n \in 1..Len(toolHistory) :
        /\ toolHistory[n].tool = "run_transform"
        /\ toolHistory[n].result # Null
        /\ toolHistory[n].result.success}

\* no submit_answer of the run succeeded and a run_transform did
SubmissionOwed ==
    /\ GoodTransforms # {}
    /\ \A n \in 1..Len(toolHistory) :
          toolHistory[n].tool = "submit_answer" =>
              toolHistory[n].result = Null \/ ~toolHistory[n].result.success

\* the loop of a puzzle turn has ended with max_iterations and the handler
\* has not yet dealt with that event
Exhausted ==
    /\ spc = "running"
    /\ msgType = "arc"
    /\ pc = "done"
    /\ counts.max_iterations > 0

UnparsablePlan ==
    /\ arg # Null
    /\ \/ arg.kind \in {"none", "text", "object"}
       \/ arg.kind = "list" /\ Len(arg.items) = 0

\* C34: when the planner's response does not parse as a non-empty list,
\* plan() emits one error event and ends: no planning event, no
\* iteration_start, no terminal event of the loop, no model request and no
\* tool execution.  When it parses, no iteration starts before the planning
\* event was emitted.
C34_PlanParseFailureEndsPlan ==
    /\ UnparsablePlan =>
          /\ pc = "done"
          /\ ~ENABLED NextPlan
          /\ Len(emitted) = 1
          /\ emitted[1].type = "error"
          /\ counts = NoCounts
          /\ calls = NoCalls
          /\ toolHistory = <<>>
          /\ objectives = <<>>
    /\ (arg # Null /\ ~UnparsablePlan /\ counts.iteration_start > 0 /\ i = 0) =>
          \E n \in 1..Len(emitted) :
              /\ emitted[n].type = "planning"
              /\ \A m \in 1..n : emitted[m].type # "iteration_start"
    /\ (arg = Null \/ pc = "threw") => counts.iteration_start = 0

\* the planner answered with the empty list
C34_Witness ==
    /\ arg # Null
    /\ arg.kind = "list"
    /\ arg.items = <<>>
    /\ emitted # <<>>
    /\ pc = "done"

\* the response parsed and the first iteration has started
C34_WitnessPlanned ==
    /\ arg # Null
    /\ ~UnparsablePlan
    /\ counts.iteration_start = 1
    /\ i = 0

(***************************************************************************)
(* Properties of abort() and of a consumer that stops.                     *)
(***************************************************************************)

\* C35: once abort() was called in a turn, the turn emits no further
\* iteration_start, also when the call came while the planner call was in
\* flight or before the turn's loop and gate were created.
C35_AbortStopsTheTurn ==
    [][(api.abortCalled /\ turnCount' = turnCount) =>
          counts'.iteration_start <= counts.iteration_start]_vars

\* C36: once complete was delivered to the consumer of send(), the turn does
\* not end without its ledger update: the turn's objectives are appended to
\* completedObjectives, pendingObjectives is emptied and the summary is
\* added to history, also when the consumer stops at complete.
C36_CompleteImpliesLedgerUpdate ==
    [][(spc = "running" /\ pc = "done" /\ counts.complete > 0 /\ spc' # spc) =>
          /\ completedObjectives' = completedObjectives \o newObjectives
          /\ pendingObjectives' = <<>>
          /\ history' = Append(history, Summary)]_vars


(***************************************************************************)
(* Properties of a cancellation request and the terminal event.            *)
(***************************************************************************)
\* C37, as stated: a run in which the abort signal was set before its
\* terminal event ends with cancelled, never with complete or max_iterations
\* (the signal cannot be set after the terminal event: Abort needs a run
\* that has not ended).
C37_AbortedRunEndsCancelled ==
    (aborted /\ pc = "done") => (counts.cancelled = 1 /\ Last(emitted).type = "cancelled")

\* C37, amended: a cancellation request takes effect at the next iteration
\* boundary only.  With the signal set at the head of a permitted iteration
\* the only step is to emit cancelled and end; no iteration starts with the
\* signal set; a request that arrives inside the body of an iteration does
\* not change that iteration's outcome: complete is emitted from its
\* decision when the check is all met, max_iterations when it was the last
\* permitted iteration, and cancelled never ends a run whose signal is unset.
C37_AbortTakesEffectAtBoundary ==
    [][/\ (aborted /\ pc = "loop_head" /\ i < maxIterations) =>
            /\ pc' = "done"
            /\ counts' = [counts EXCEPT !.cancelled = @ + 1]
       /\ counts'.iteration_start > counts.iteration_start => ~aborted
       /\ counts'.cancelled > counts.cancelled => aborted
       /\ (aborted /\ pc = "decide") =>
            /\ allMet(objectiveResults) => counts' = [counts EXCEPT !.complete = @ + 1]
            /\ ~allMet(objectiveResults) => (counts' = counts /\ pc' = "iteration_end")
       /\ (aborted /\ pc = "loop_head" /\ i = maxIterations) =>
            counts' = [counts EXCEPT !.max_iterations = @ + 1]]_vars

\* the signal was set during the last permitted iteration, whose check was
\* not all met: the run ended with max_iterations
C37_Witness ==
    /\ aborted
    /\ pc = "done"
    /\ counts.max_iterations = 1
    /\ counts.iteration_start = maxIterations
    /\ counts.cancelled = 0


(***************************************************************************)
(* Properties of a stream that fails after a fragment.                     *)
(***************************************************************************)
\* C38: a streaming request that fails after at least one fragment is not
\* accepted as a complete response: the failure does not leave the loop where
\* the normal end of the stream leaves it, at the extraction over the
\* accumulated text with nothing reported; it reports an error or issues the
\* request again.
C38_TruncatedStreamNotAccepted ==
    [][(streamed /\ StreamFail) =>
          /\ ~StreamEnd
          /\ pc' # "post_llm"
          /\ \/ Len(emitted') > Len(emitted) /\ Last(emitted').type = "error"
             \/ Op("stream", 0) \in inFlight'
             \/ Op("atomic", 0) \in inFlight']_vars


(***************************************************************************)
(* Properties of the number of invocations the extractor returns.          *)
(***************************************************************************)
RECURSIVE RecordCount(_)
\* tool-call records present in a text: its inline records and the elements
\* of its fenced payloads other than null
RecordCount(text) ==
    IF text = <<>> THEN 0
    ELSE LET tok == Head(text) IN
         (IF tok.k = "inline" THEN 1
          ELSE IF tok.k = "fence"
               THEN Cardinality({n \in 1..Len(tok.items) : ~tok.items[n].isNull})
               ELSE 0)
         + RecordCount(Tail(text))

\* C39: the extractor returns each record occurrence of the text at most
\* once: it returns no more invocations than the text holds records, also
\* when a later element of the fenced list makes the processing fail after
\* leading records were taken and inline scanning runs over the same text.
C39_EachRecordAtMostOnce ==
    (ret # NotCalled /\ ret.kind = "returned") => Len(ret.value) <= RecordCount(arg)


====
